---- MODULE Spec2Model ----
(***************************************************************************)
(* Model of the voice activity detector of niri-transcribe                 *)
(* (src/services/voice-activity-detector.js).                              *)
(*                                                                         *)
(* Time is in milliseconds.  Sample amplitudes are fixed-point numbers in  *)
(* units of 10^-3, energies, the noise floor and the thresholds in units   *)
(* of 10^-6 (rounded down).  A sample is a record [id, v]: v is the        *)
(* amplitude, id is the position of the sample in the input stream (an     *)
(* observation added by the model so that loss, duplication and            *)
(* reordering of samples are visible).                                     *)
(*                                                                         *)
(* A number that JavaScript computes as NaN (0/0 for a frame without       *)
(* samples, or anything computed from a NaN sample) is the value NaN of    *)
(* the model; arithmetic and comparisons treat it as IEEE 754 does.        *)
(*                                                                         *)
(* Timers are ideal: a callback runs at the instant it is due, before any  *)
(* further call into the detector and before the clock moves on.           *)
(***************************************************************************)
EXTENDS Integers, Sequences, FiniteSets, TLC

\* ------------------------------------------------------------------ bounds
SampleRate == 67            \* config.audio.sampleRate of the modelled instance
VadThreshold == 10000       \* config.audio.vadThreshold (0.01)
SilenceTimeoutCfg == 1500   \* config.audio.silenceTimeout of the instance
Epoch == 1000               \* Date.now() at construction
MaxTime == 5500             \* the clock is not advanced beyond this instant
MaxSamples == 8             \* samples fed in the timed specification
MaxResets == 1              \* reset() calls in one run
MaxAsmSamples == 7          \* samples fed in the assembler specification
MaxBlock == 5               \* longest block of the assembler specification
MaxCfgCalls == 4            \* calls made in the reconfiguration specification
MaxCfgTime == 3000          \* its clock is not advanced beyond this instant
MaxConfigs == 1             \* updateConfig() calls in one run
MaxLateCalls == 4           \* calls made in the late-callback specification
MaxTrimSamples == 28        \* samples fed in the pre-roll specification
MaxStreamFrames == 4        \* frames that open or prolong a segment (streaming)
LowThreshold == 2000        \* vadThreshold passed to updateConfig (0.002)
LongTimeout == 2500         \* silenceTimeout passed to updateConfig
MaxMixedLen == 5            \* AudioAnalysis: longest frame with quiet samples
MaxAnalysisLen == 10        \* AudioAnalysis: longest frame
MaxRequests == 2            \* transcribe() calls on the OpenAI service
MaxManagerCalls == 3        \* transcribe() and checkHealth() calls on the manager

Delays == {250}             \* amounts by which the clock advances
Amps == {0, 500}            \* amplitudes of the input samples (0.0 and 0.5)
CfgDelays == {500}          \* clock steps of the reconfiguration specification
TrimBlockFrames == {3, 8}   \* frames per block of the pre-roll specification
AnalysisAmps == {-500, 0, 10, 500}   \* samples of the AudioAnalysis frames
LoudAmps == {-500, 500}              \* samples of its long frames
Responses == {"text", "null"}        \* what the API call resolves with
Providers == {"auto", "openai", "local"}   \* config.transcription.provider

\* --------------------------------------------------------------- constants
speechStartDelay == 300
speechEndDelay == 1000
maxChunkDuration == 3000
minChunkDuration == 1000
frameSize == (SampleRate * 3) \div 100
preSpeechSamples == (SampleRate * 3) \div 10
maxRetries == 3

NULL == -1                  \* null timestamp
NoTimer == 0                \* null timer handle
NaN == -999999              \* the number NaN

VARIABLES
  now,                \* Date.now()
  energyThreshold, silenceTimeout,
  isSpeaking, speechStartTime, speechEndTime, lastSpeechTime,
  audioBuffer, frameBuffer, noiseFloor, adaptiveThreshold,
  speechStartTimer, speechEndTimer, silenceTimer,
  timerTable,         \* every timer ever created; the pending ones are scheduled
  events,             \* events emitted so far
  fedLog,             \* every sample passed to processAudio so far
  framesLog,          \* every frame passed to processFrame so far
  closed,             \* every segment buffer given up so far (endSpeech, reset)
  resets,             \* number of reset() calls so far
  configLog,          \* every updateConfig() call so far
  analysisFrame,      \* the frame handed to the AudioAnalysis functions
  features,           \* what the AudioAnalysis functions returned, in order
  enabled, requestQueue, processing,   \* OpenAITranscriptionService fields
  recent,             \* Date.now() - lastRequestTime < minRequestInterval
  loops,              \* every processQueue() invocation that entered its loop
  submitted,          \* number of transcribe() calls on the service so far
  apiLog,             \* every callWhisperAPI() call and how it ended
  settled,            \* every request promise settled so far, in order
  provider, primaryService,            \* TranscriptionManager fields
  transcribeCalls,    \* every TranscriptionManager.transcribe() call
  healthChecks,       \* every TranscriptionManager.checkHealth() call
  serviceLog,         \* every transcribe() call made on a service
  managerEvents       \* events emitted by the manager so far

detectorVars ==
  <<now, energyThreshold, silenceTimeout, isSpeaking, speechStartTime,
    speechEndTime, lastSpeechTime, audioBuffer, frameBuffer, noiseFloor,
    adaptiveThreshold, speechStartTimer, speechEndTimer, silenceTimer,
    timerTable, events, fedLog, framesLog, closed, resets, configLog>>
analysisVars == <<analysisFrame, features>>
queueVars ==
  <<enabled, requestQueue, processing, recent, loops, submitted, apiLog,
    settled>>
managerVars ==
  <<provider, primaryService, transcribeCalls, healthChecks, serviceLog,
    managerEvents>>

vars == <<detectorVars, analysisVars, queueVars, managerVars>>

\* ----------------------------------------------------------------- helpers
\* Math.max
Max(a, b) == IF a = NaN \/ b = NaN THEN NaN ELSE IF a >= b THEN a ELSE b

\* k * x and a > b in IEEE 754 arithmetic
Times(k, x) == IF x = NaN THEN NaN ELSE k * x
Greater(a, b) == a # NaN /\ b # NaN /\ a > b

\* JavaScript truthiness of a number or null (null, undefined, 0 and NaN are
\* falsy)
Truthy(t) == t # NULL /\ t # 0 /\ t # NaN

RECURSIVE SumSq(_)
SumSq(frame) ==
  IF frame = <<>> THEN 0
  ELSE Head(frame).v * Head(frame).v + SumSq(Tail(frame))

Isqrt(x) == CHOOSE r \in 0..1000 : r * r <= x /\ (r + 1) * (r + 1) > x

\* the detector as one record, for the operators that model its methods
Cur ==
  [now |-> now, energyThreshold |-> energyThreshold,
   silenceTimeout |-> silenceTimeout, isSpeaking |-> isSpeaking,
   speechStartTime |-> speechStartTime, speechEndTime |-> speechEndTime,
   lastSpeechTime |-> lastSpeechTime, audioBuffer |-> audioBuffer,
   frameBuffer |-> frameBuffer, noiseFloor |-> noiseFloor,
   adaptiveThreshold |-> adaptiveThreshold,
   speechStartTimer |-> speechStartTimer, speechEndTimer |-> speechEndTimer,
   silenceTimer |-> silenceTimer, timerTable |-> timerTable,
   events |-> events, fedLog |-> fedLog, framesLog |-> framesLog,
   closed |-> closed, resets |-> resets, configLog |-> configLog]

Install(s) ==
  /\ now' = s.now
  /\ energyThreshold' = s.energyThreshold
  /\ silenceTimeout' = s.silenceTimeout
  /\ isSpeaking' = s.isSpeaking
  /\ speechStartTime' = s.speechStartTime
  /\ speechEndTime' = s.speechEndTime
  /\ lastSpeechTime' = s.lastSpeechTime
  /\ audioBuffer' = s.audioBuffer
  /\ frameBuffer' = s.frameBuffer
  /\ noiseFloor' = s.noiseFloor
  /\ adaptiveThreshold' = s.adaptiveThreshold
  /\ speechStartTimer' = s.speechStartTimer
  /\ speechEndTimer' = s.speechEndTimer
  /\ silenceTimer' = s.silenceTimer
  /\ timerTable' = s.timerTable
  /\ events' = s.events
  /\ fedLog' = s.fedLog
  /\ framesLog' = s.framesLog
  /\ closed' = s.closed
  /\ resets' = s.resets
  /\ configLog' = s.configLog
  /\ UNCHANGED <<analysisVars, queueVars, managerVars>>

\* ------------------------------------------------------------------ timers
Pending(tt) == {k \in DOMAIN tt : tt[k].status = "pending"}
PendingOf(tt, kind) == {k \in Pending(tt) : tt[k].kind = kind}
Due(tt, t) == {k \in Pending(tt) : tt[k].due <= t}

\* setTimeout(callback, delay): the new handle is Len(timerTable) + 1
SetTimeout(s, kind, delay) ==
  [s EXCEPT !.timerTable = Append(@,
     [kind |-> kind, armedAt |-> s.now, due |-> s.now + delay,
      armFrame |-> Len(s.framesLog), status |-> "pending",
      doneAt |-> NULL, doneFrame |-> 0])]

\* clearTimeout(handle): no effect on a timer that already ran
ClearTimeout(s, h) ==
  IF h \in Pending(s.timerTable)
  THEN [s EXCEPT !.timerTable[h].status = "cancelled",
                 !.timerTable[h].doneAt = s.now,
                 !.timerTable[h].doneFrame = Len(s.framesLog)]
  ELSE s

Emit(s, ev) == [s EXCEPT !.events = Append(@, ev)]

\* ------------------------------------------------------- detector methods
calculateEnergy(frame) ==
  IF Len(frame) = 0 \/ \E i \in DOMAIN frame : frame[i].v = NaN
  THEN NaN
  ELSE Isqrt(SumSq(frame) \div Len(frame)) * 1000

\* detectSpeech that accepts an energy equal to the threshold
detectSpeechAtLeast(s, energy) ==
  LET threshold == Max(s.adaptiveThreshold, Times(3, s.noiseFloor))
  IN energy # NaN /\ threshold # NaN /\ energy >= threshold

detectSpeech(s, energy) ==
  LET threshold == Max(s.adaptiveThreshold, Times(3, s.noiseFloor))
  IN Greater(energy, threshold)

\* updateNoiseFloor that adapts on speech frames too
updateNoiseFloorAlways(s, energy, isSpeech) ==
  LET nf == IF energy = NaN \/ s.noiseFloor = NaN THEN NaN
            ELSE (energy + 99 * s.noiseFloor) \div 100
  IN [s EXCEPT !.noiseFloor = nf, !.adaptiveThreshold = Times(5, nf)]

\* updateNoiseFloor that adapts the floor and leaves the threshold alone
updateNoiseFloorOnly(s, energy, isSpeech) ==
  IF ~isSpeech
  THEN LET nf == IF energy = NaN \/ s.noiseFloor = NaN THEN NaN
                 ELSE (energy + 99 * s.noiseFloor) \div 100
       IN [s EXCEPT !.noiseFloor = nf]
  ELSE s

updateNoiseFloor(s, energy, isSpeech) ==
  IF ~isSpeech
  THEN LET nf == IF energy = NaN \/ s.noiseFloor = NaN THEN NaN
                 ELSE (energy + 99 * s.noiseFloor) \div 100
       IN [s EXCEPT !.noiseFloor = nf, !.adaptiveThreshold = Times(5, nf)]
  ELSE s

\* handleSpeechStart without the test that no onset timer is pending
handleSpeechStartRearm(s) ==
  LET s1 == IF s.speechEndTimer # NoTimer
            THEN [ClearTimeout(s, s.speechEndTimer)
                    EXCEPT !.speechEndTimer = NoTimer]
            ELSE s
  IN IF s1.isSpeaking THEN s1
     ELSE [SetTimeout(s1, "onset", speechStartDelay)
             EXCEPT !.speechStartTimer = Len(s1.timerTable) + 1]

handleSpeechStart(s) ==
  LET s1 == IF s.speechEndTimer # NoTimer
            THEN [ClearTimeout(s, s.speechEndTimer)
                    EXCEPT !.speechEndTimer = NoTimer]
            ELSE s
  IN IF s1.isSpeaking THEN s1
     ELSE IF s1.speechStartTimer = NoTimer
          THEN [SetTimeout(s1, "onset", speechStartDelay)
                  EXCEPT !.speechStartTimer = Len(s1.timerTable) + 1]
          ELSE s1

\* handleSpeechEnd without the test that no offset timer is pending
handleSpeechEndRestart(s) ==
  LET s1 == IF s.speechStartTimer # NoTimer
            THEN [ClearTimeout(s, s.speechStartTimer)
                    EXCEPT !.speechStartTimer = NoTimer]
            ELSE s
  IN IF s1.isSpeaking
     THEN [SetTimeout(s1, "offset", speechEndDelay)
             EXCEPT !.speechEndTimer = Len(s1.timerTable) + 1]
     ELSE s1

\* handleSpeechEnd that starts the end delay afresh on every non-speech frame
handleSpeechEndExtend(s) ==
  LET s1 == IF s.speechStartTimer # NoTimer
            THEN [ClearTimeout(s, s.speechStartTimer)
                    EXCEPT !.speechStartTimer = NoTimer]
            ELSE s
      s2 == ClearTimeout(s1, s1.speechEndTimer)
  IN IF s1.isSpeaking
     THEN [SetTimeout(s2, "offset", speechEndDelay)
             EXCEPT !.speechEndTimer = Len(s2.timerTable) + 1]
     ELSE s1

\* handleSpeechEnd that leaves the handle of the onset timer in place
handleSpeechEndKeepsHandle(s) ==
  IF s.isSpeaking /\ s.speechEndTimer = NoTimer
  THEN [SetTimeout(s, "offset", speechEndDelay)
          EXCEPT !.speechEndTimer = Len(s.timerTable) + 1]
  ELSE s

\* handleSpeechEnd whose offset timer runs after half the end delay
handleSpeechEndShort(s) ==
  LET s1 == IF s.speechStartTimer # NoTimer
            THEN [ClearTimeout(s, s.speechStartTimer)
                    EXCEPT !.speechStartTimer = NoTimer]
            ELSE s
  IN IF s1.isSpeaking /\ s1.speechEndTimer = NoTimer
     THEN [SetTimeout(s1, "offset", speechEndDelay \div 2)
             EXCEPT !.speechEndTimer = Len(s1.timerTable) + 1]
     ELSE s1

handleSpeechEnd(s) ==
  LET s1 == IF s.speechStartTimer # NoTimer
            THEN [ClearTimeout(s, s.speechStartTimer)
                    EXCEPT !.speechStartTimer = NoTimer]
            ELSE s
  IN IF s1.isSpeaking /\ s1.speechEndTimer = NoTimer
     THEN [SetTimeout(s1, "offset", speechEndDelay)
             EXCEPT !.speechEndTimer = Len(s1.timerTable) + 1]
     ELSE s1

\* endSpeech without the minimum-duration test
endSpeechNoMin(s, reason) ==
  IF ~s.isSpeaking THEN s
  ELSE
    LET duration == s.now - s.speechStartTime
        s1 == [s EXCEPT !.isSpeaking = FALSE, !.speechEndTime = s.now]
        s2 == Emit(s1, [type |-> "speechEnd", audio |-> s.audioBuffer,
                        duration |-> duration,
                        timestamp |-> s.speechStartTime,
                        reason |-> reason, at |-> s.now,
                        nframes |-> Len(s.framesLog)])
    IN [s2 EXCEPT !.audioBuffer = <<>>, !.speechStartTime = NULL,
                  !.closed = Append(@,
                     [audio |-> s.audioBuffer, reason |-> reason,
                      emitted |-> TRUE, duration |-> duration,
                      at |-> s.now, nframes |-> Len(s.framesLog),
                      nevents |-> Len(s.events)])]

\* endSpeech that leaves the start timestamp in place
endSpeechKeepsStart(s, reason) ==
  IF ~s.isSpeaking THEN s
  ELSE
    LET duration == s.now - s.speechStartTime
        emitted == duration >= minChunkDuration
        s1 == [s EXCEPT !.isSpeaking = FALSE, !.speechEndTime = s.now]
        s2 == IF emitted
              THEN Emit(s1, [type |-> "speechEnd", audio |-> s.audioBuffer,
                             duration |-> duration,
                             timestamp |-> s.speechStartTime,
                             reason |-> reason, at |-> s.now,
                             nframes |-> Len(s.framesLog)])
              ELSE s1
    IN [s2 EXCEPT !.audioBuffer = <<>>,
                  !.closed = Append(@,
                     [audio |-> s.audioBuffer, reason |-> reason,
                      emitted |-> emitted, duration |-> duration,
                      at |-> s.now, nframes |-> Len(s.framesLog),
                      nevents |-> Len(s.events)])]

endSpeech(s, reason) ==
  IF ~s.isSpeaking THEN s
  ELSE
    LET duration == s.now - s.speechStartTime
        emitted == duration >= minChunkDuration
        s1 == [s EXCEPT !.isSpeaking = FALSE, !.speechEndTime = s.now]
        s2 == IF emitted
              THEN Emit(s1, [type |-> "speechEnd", audio |-> s.audioBuffer,
                             duration |-> duration,
                             timestamp |-> s.speechStartTime,
                             reason |-> reason, at |-> s.now,
                             nframes |-> Len(s.framesLog)])
              ELSE s1
    IN [s2 EXCEPT !.audioBuffer = <<>>, !.speechStartTime = NULL,
                  !.closed = Append(@,
                     [audio |-> s.audioBuffer, reason |-> reason,
                      emitted |-> emitted, duration |-> duration,
                      at |-> s.now, nframes |-> Len(s.framesLog),
                      nevents |-> Len(s.events)])]

\* forceEndSpeech that closes the segment with the default reason
forceEndSpeechAsSilence(s) ==
  LET s1 == endSpeech(s, "silence")
      s2 == [s1 EXCEPT !.isSpeaking = TRUE, !.speechStartTime = s.now]
  IN Emit(s2, [type |-> "speechStart", audio |-> <<>>, duration |-> 0,
               timestamp |-> s.now, reason |-> "continued", at |-> s.now,
               nframes |-> Len(s.framesLog)])

\* forceEndSpeech that re-opens the segment without a speechStart event
forceEndSpeechNoEvent(s) ==
  LET s1 == endSpeech(s, "max_duration")
  IN [s1 EXCEPT !.isSpeaking = TRUE, !.speechStartTime = s.now]

forceEndSpeech(s) ==
  LET s1 == endSpeech(s, "max_duration")
      s2 == [s1 EXCEPT !.isSpeaking = TRUE, !.speechStartTime = s.now]
  IN Emit(s2, [type |-> "speechStart", audio |-> <<>>, duration |-> 0,
               timestamp |-> s.now, reason |-> "continued", at |-> s.now,
               nframes |-> Len(s.framesLog)])

\* handleSilenceTimeout that starts the timer whether or not speech was seen
handleSilenceTimeoutNoBaseline(s, isSpeech) ==
  IF isSpeech
  THEN LET s1 == [s EXCEPT !.lastSpeechTime = s.now]
       IN IF s1.silenceTimer # NoTimer
          THEN [ClearTimeout(s1, s1.silenceTimer)
                  EXCEPT !.silenceTimer = NoTimer]
          ELSE s1
  ELSE IF s.silenceTimer = NoTimer
       THEN [SetTimeout(s, "silence", s.silenceTimeout)
               EXCEPT !.silenceTimer = Len(s.timerTable) + 1]
       ELSE s

\* handleSilenceTimeout that forgets the handle instead of clearing the timer
handleSilenceTimeoutNoCancel(s, isSpeech) ==
  IF isSpeech
  THEN [s EXCEPT !.lastSpeechTime = s.now, !.silenceTimer = NoTimer]
  ELSE IF Truthy(s.lastSpeechTime) /\ s.silenceTimer = NoTimer
       THEN [SetTimeout(s, "silence", s.silenceTimeout)
               EXCEPT !.silenceTimer = Len(s.timerTable) + 1]
       ELSE s

handleSilenceTimeout(s, isSpeech) ==
  IF isSpeech
  THEN LET s1 == [s EXCEPT !.lastSpeechTime = s.now]
       IN IF s1.silenceTimer # NoTimer
          THEN [ClearTimeout(s1, s1.silenceTimer)
                  EXCEPT !.silenceTimer = NoTimer]
          ELSE s1
  ELSE IF Truthy(s.lastSpeechTime) /\ s.silenceTimer = NoTimer
       THEN [SetTimeout(s, "silence", s.silenceTimeout)
               EXCEPT !.silenceTimer = Len(s.timerTable) + 1]
       ELSE s

\* processFrame records the frame and the state it met before anything else;
\* the fields named ...After are filled in when the call returns
LogFrame(s, frame, energy, isSpeech) ==
  [s EXCEPT !.framesLog = Append(@,
     [samples |-> frame, energy |-> energy, isSpeech |-> isSpeech,
      at |-> s.now, speakingBefore |-> s.isSpeaking,
      startBefore |-> s.speechStartTime, evBefore |-> Len(s.events),
      evAfter |-> Len(s.events), speakingAfter |-> s.isSpeaking,
      startAfter |-> s.speechStartTime, onsetAfter |-> {},
      offsetAfter |-> {}, bufBefore |-> s.audioBuffer,
      bufAfter |-> s.audioBuffer, floorBefore |-> s.noiseFloor,
      thresholdBefore |-> s.adaptiveThreshold, floorAfter |-> s.noiseFloor,
      thresholdAfter |-> s.adaptiveThreshold,
      lastSpeechBefore |-> s.lastSpeechTime, silenceAfter |-> {}])]

LogReturn(s) ==
  LET n == Len(s.framesLog)
  IN [s EXCEPT !.framesLog[n].evAfter = Len(s.events),
               !.framesLog[n].speakingAfter = s.isSpeaking,
               !.framesLog[n].startAfter = s.speechStartTime,
               !.framesLog[n].onsetAfter = PendingOf(s.timerTable, "onset"),
               !.framesLog[n].offsetAfter = PendingOf(s.timerTable, "offset"),
               !.framesLog[n].bufAfter = s.audioBuffer,
               !.framesLog[n].floorAfter = s.noiseFloor,
               !.framesLog[n].thresholdAfter = s.adaptiveThreshold,
               !.framesLog[n].silenceAfter = PendingOf(s.timerTable, "silence")]

\* processFrame that cuts only when the segment is older than the maximum
processFrameStrict(s, frame) ==
  LET energy == calculateEnergy(frame)
      isSpeech == detectSpeech(s, energy)
      s0 == LogFrame(s, frame, energy, isSpeech)
      s1 == updateNoiseFloor(s0, energy, isSpeech)
      s2 == [s1 EXCEPT !.audioBuffer = @ \o frame]
      s3 == IF isSpeech /\ ~s2.isSpeaking THEN handleSpeechStart(s2)
            ELSE IF isSpeech /\ s2.isSpeaking
                 THEN IF s2.speechEndTimer # NoTimer
                      THEN [ClearTimeout(s2, s2.speechEndTimer)
                              EXCEPT !.speechEndTimer = NoTimer]
                      ELSE s2
            ELSE IF ~isSpeech /\ s2.isSpeaking THEN handleSpeechEnd(s2)
            ELSE s2
      s4 == IF /\ s3.isSpeaking
               /\ Truthy(s3.speechStartTime)
               /\ s3.now - s3.speechStartTime > maxChunkDuration
            THEN forceEndSpeech(s3)
            ELSE s3
      s5 == handleSilenceTimeout(s4, isSpeech)
  IN LogReturn(s5)

\* processFrame that appends the frame to the buffer after the duration check
processFrameLateAppend(s, frame) ==
  LET energy == calculateEnergy(frame)
      isSpeech == detectSpeech(s, energy)
      s0 == LogFrame(s, frame, energy, isSpeech)
      s1 == updateNoiseFloor(s0, energy, isSpeech)
      s3 == IF isSpeech /\ ~s1.isSpeaking THEN handleSpeechStart(s1)
            ELSE IF isSpeech /\ s1.isSpeaking
                 THEN IF s1.speechEndTimer # NoTimer
                      THEN [ClearTimeout(s1, s1.speechEndTimer)
                              EXCEPT !.speechEndTimer = NoTimer]
                      ELSE s1
            ELSE IF ~isSpeech /\ s1.isSpeaking THEN handleSpeechEnd(s1)
            ELSE s1
      s4 == IF /\ s3.isSpeaking
               /\ Truthy(s3.speechStartTime)
               /\ s3.now - s3.speechStartTime >= maxChunkDuration
            THEN forceEndSpeech(s3)
            ELSE s3
      s5 == handleSilenceTimeout(s4, isSpeech)
  IN LogReturn([s5 EXCEPT !.audioBuffer = @ \o frame])

\* processFrame that leaves a pending offset timer alone when speech goes on
processFrameNoCancel(s, frame) ==
  LET energy == calculateEnergy(frame)
      isSpeech == detectSpeech(s, energy)
      s0 == LogFrame(s, frame, energy, isSpeech)
      s1 == updateNoiseFloor(s0, energy, isSpeech)
      s2 == [s1 EXCEPT !.audioBuffer = @ \o frame]
      s3 == IF isSpeech /\ ~s2.isSpeaking THEN handleSpeechStart(s2)
            ELSE IF ~isSpeech /\ s2.isSpeaking THEN handleSpeechEnd(s2)
            ELSE s2
      s4 == IF /\ s3.isSpeaking
               /\ Truthy(s3.speechStartTime)
               /\ s3.now - s3.speechStartTime >= maxChunkDuration
            THEN forceEndSpeech(s3)
            ELSE s3
      s5 == handleSilenceTimeout(s4, isSpeech)
  IN LogReturn(s5)

\* processFrame whose speech frame cancels the offset timer only before the
\* timer's deadline
processFrameCancelFuture(s, frame) ==
  LET energy == calculateEnergy(frame)
      isSpeech == detectSpeech(s, energy)
      s0 == LogFrame(s, frame, energy, isSpeech)
      s1 == updateNoiseFloor(s0, energy, isSpeech)
      s2 == [s1 EXCEPT !.audioBuffer = @ \o frame]
      s3 == IF isSpeech /\ ~s2.isSpeaking THEN handleSpeechStart(s2)
            ELSE IF isSpeech /\ s2.isSpeaking
                 THEN IF s2.speechEndTimer # NoTimer
                      THEN [(IF s2.speechEndTimer \in Due(s2.timerTable, s2.now)
                             THEN s2
                             ELSE ClearTimeout(s2, s2.speechEndTimer))
                              EXCEPT !.speechEndTimer = NoTimer]
                      ELSE s2
            ELSE IF ~isSpeech /\ s2.isSpeaking THEN handleSpeechEnd(s2)
            ELSE s2
      s4 == IF /\ s3.isSpeaking
               /\ Truthy(s3.speechStartTime)
               /\ s3.now - s3.speechStartTime >= maxChunkDuration
            THEN forceEndSpeech(s3)
            ELSE s3
      s5 == handleSilenceTimeout(s4, isSpeech)
  IN LogReturn(s5)

\* processFrame that buffers a frame only when it is speech or a segment is
\* open
processFrameGated(s, frame) ==
  LET energy == calculateEnergy(frame)
      isSpeech == detectSpeech(s, energy)
      s0 == LogFrame(s, frame, energy, isSpeech)
      s1 == updateNoiseFloor(s0, energy, isSpeech)
      s2 == IF isSpeech \/ s1.isSpeaking
            THEN [s1 EXCEPT !.audioBuffer = @ \o frame]
            ELSE s1
      s3 == IF isSpeech /\ ~s2.isSpeaking THEN handleSpeechStart(s2)
            ELSE IF isSpeech /\ s2.isSpeaking
                 THEN IF s2.speechEndTimer # NoTimer
                      THEN [ClearTimeout(s2, s2.speechEndTimer)
                              EXCEPT !.speechEndTimer = NoTimer]
                      ELSE s2
            ELSE IF ~isSpeech /\ s2.isSpeaking THEN handleSpeechEnd(s2)
            ELSE s2
      s4 == IF /\ s3.isSpeaking
               /\ Truthy(s3.speechStartTime)
               /\ s3.now - s3.speechStartTime >= maxChunkDuration
            THEN forceEndSpeech(s3)
            ELSE s3
      s5 == handleSilenceTimeout(s4, isSpeech)
  IN LogReturn(s5)

\* processFrame without the maximum-duration check
processFrameNoCut(s, frame) ==
  LET energy == calculateEnergy(frame)
      isSpeech == detectSpeech(s, energy)
      s0 == LogFrame(s, frame, energy, isSpeech)
      s1 == updateNoiseFloor(s0, energy, isSpeech)
      s2 == [s1 EXCEPT !.audioBuffer = @ \o frame]
      s3 == IF isSpeech /\ ~s2.isSpeaking THEN handleSpeechStart(s2)
            ELSE IF isSpeech /\ s2.isSpeaking
                 THEN IF s2.speechEndTimer # NoTimer
                      THEN [ClearTimeout(s2, s2.speechEndTimer)
                              EXCEPT !.speechEndTimer = NoTimer]
                      ELSE s2
            ELSE IF ~isSpeech /\ s2.isSpeaking THEN handleSpeechEnd(s2)
            ELSE s2
      s5 == handleSilenceTimeout(s3, isSpeech)
  IN LogReturn(s5)

processFrame(s, frame) ==
  LET energy == calculateEnergy(frame)
      isSpeech == detectSpeech(s, energy)
      s0 == LogFrame(s, frame, energy, isSpeech)
      s1 == updateNoiseFloor(s0, energy, isSpeech)
      s2 == [s1 EXCEPT !.audioBuffer = @ \o frame]
      s3 == IF isSpeech /\ ~s2.isSpeaking THEN handleSpeechStart(s2)
            ELSE IF isSpeech /\ s2.isSpeaking
                 THEN IF s2.speechEndTimer # NoTimer
                      THEN [ClearTimeout(s2, s2.speechEndTimer)
                              EXCEPT !.speechEndTimer = NoTimer]
                      ELSE s2
            ELSE IF ~isSpeech /\ s2.isSpeaking THEN handleSpeechEnd(s2)
            ELSE s2
      s4 == IF /\ s3.isSpeaking
               /\ Truthy(s3.speechStartTime)
               /\ s3.now - s3.speechStartTime >= maxChunkDuration
            THEN forceEndSpeech(s3)
            ELSE s3
      s5 == handleSilenceTimeout(s4, isSpeech)
  IN LogReturn(s5)

\* the while loop of processAudio
\* the loop of processAudio leaving a complete frame in the buffer
RECURSIVE processFramesStrict(_)
processFramesStrict(s) ==
  IF Len(s.frameBuffer) > frameSize
  THEN LET frame == SubSeq(s.frameBuffer, 1, frameSize)
           rest == SubSeq(s.frameBuffer, frameSize + 1, Len(s.frameBuffer))
       IN processFramesStrict(processFrame([s EXCEPT !.frameBuffer = rest],
                                           frame))
  ELSE s

RECURSIVE processFrames(_)
processFrames(s) ==
  IF Len(s.frameBuffer) >= frameSize
  THEN LET frame == SubSeq(s.frameBuffer, 1, frameSize)
           rest == SubSeq(s.frameBuffer, frameSize + 1, Len(s.frameBuffer))
       IN processFrames(processFrame([s EXCEPT !.frameBuffer = rest], frame))
  ELSE s

\* processAudio that replaces the remainder instead of appending to it
processAudioOverwrite(s, audioData) ==
  processFrames([s EXCEPT !.frameBuffer = audioData,
                          !.fedLog = @ \o audioData])

processAudio(s, audioData) ==
  processFrames([s EXCEPT !.frameBuffer = @ \o audioData,
                          !.fedLog = @ \o audioData])

\* onset callback that keeps the oldest samples of the buffer, not the newest
onsetCallbackKeepHead(s) ==
  LET s1 == [s EXCEPT !.isSpeaking = TRUE, !.speechStartTime = s.now,
                      !.lastSpeechTime = s.now,
                      !.audioBuffer =
                          SubSeq(@, 1, IF Len(@) < preSpeechSamples
                                       THEN Len(@) ELSE preSpeechSamples)]
  IN Emit(s1, [type |-> "speechStart", audio |-> <<>>, duration |-> 0,
               timestamp |-> s1.speechStartTime, reason |-> "onset",
               at |-> s.now, nframes |-> Len(s.framesLog)])

\* callback of the timer created in handleSpeechStart; the speechStart event
\* has no payload: its timestamp is the start timestamp a listener reads
\* from the detector while the event is delivered
onsetCallback(s) ==
  LET start == Max(0, Len(s.audioBuffer) - preSpeechSamples)
      s1 == [s EXCEPT !.isSpeaking = TRUE, !.speechStartTime = s.now,
                      !.lastSpeechTime = s.now,
                      !.audioBuffer = SubSeq(@, start + 1, Len(@))]
  IN Emit(s1, [type |-> "speechStart", audio |-> <<>>, duration |-> 0,
               timestamp |-> s1.speechStartTime, reason |-> "onset",
               at |-> s.now, nframes |-> Len(s.framesLog)])

\* callback of the timer created in handleSpeechEnd
offsetCallback(s) == endSpeech(s, "silence")

\* callback of the timer created in handleSilenceTimeout
silenceCallback(s) ==
  [Emit(s, [type |-> "silenceTimeout", audio |-> <<>>, duration |-> 0,
            timestamp |-> NULL, reason |-> "none", at |-> s.now,
            nframes |-> Len(s.framesLog)])
     EXCEPT !.silenceTimer = NoTimer]

\* reset that leaves the silence timer alone
resetKeepSilence(s) ==
  LET s1 == IF s.speechStartTimer # NoTimer
            THEN [ClearTimeout(s, s.speechStartTimer)
                    EXCEPT !.speechStartTimer = NoTimer]
            ELSE s
      s2 == IF s1.speechEndTimer # NoTimer
            THEN [ClearTimeout(s1, s1.speechEndTimer)
                    EXCEPT !.speechEndTimer = NoTimer]
            ELSE s1
  IN [s2 EXCEPT !.isSpeaking = FALSE, !.speechStartTime = NULL,
                !.speechEndTime = NULL, !.lastSpeechTime = NULL,
                !.audioBuffer = <<>>, !.frameBuffer = <<>>,
                !.closed = Append(@,
                   [audio |-> s.audioBuffer, reason |-> "reset",
                    emitted |-> FALSE, duration |-> 0, at |-> s.now,
                    nframes |-> Len(s.framesLog),
                    nevents |-> Len(s.events)]),
                !.resets = @ + 1]

\* reset that leaves the offset timer running
resetKeepsOffset(s) ==
  LET s1 == IF s.speechStartTimer # NoTimer
            THEN [ClearTimeout(s, s.speechStartTimer)
                    EXCEPT !.speechStartTimer = NoTimer]
            ELSE s
      s3 == IF s1.silenceTimer # NoTimer
            THEN [ClearTimeout(s1, s1.silenceTimer)
                    EXCEPT !.silenceTimer = NoTimer]
            ELSE s1
  IN [s3 EXCEPT !.isSpeaking = FALSE, !.speechStartTime = NULL,
                !.speechEndTime = NULL, !.lastSpeechTime = NULL,
                !.audioBuffer = <<>>, !.frameBuffer = <<>>,
                !.closed = Append(@,
                   [audio |-> s.audioBuffer, reason |-> "reset",
                    emitted |-> FALSE, duration |-> 0, at |-> s.now,
                    nframes |-> Len(s.framesLog),
                    nevents |-> Len(s.events)]),
                !.resets = @ + 1]

reset(s) ==
  LET s1 == IF s.speechStartTimer # NoTimer
            THEN [ClearTimeout(s, s.speechStartTimer)
                    EXCEPT !.speechStartTimer = NoTimer]
            ELSE s
      s2 == IF s1.speechEndTimer # NoTimer
            THEN [ClearTimeout(s1, s1.speechEndTimer)
                    EXCEPT !.speechEndTimer = NoTimer]
            ELSE s1
      s3 == IF s2.silenceTimer # NoTimer
            THEN [ClearTimeout(s2, s2.silenceTimer)
                    EXCEPT !.silenceTimer = NoTimer]
            ELSE s2
  IN [s3 EXCEPT !.isSpeaking = FALSE, !.speechStartTime = NULL,
                !.speechEndTime = NULL, !.lastSpeechTime = NULL,
                !.audioBuffer = <<>>, !.frameBuffer = <<>>,
                !.closed = Append(@,
                   [audio |-> s.audioBuffer, reason |-> "reset",
                    emitted |-> FALSE, duration |-> 0, at |-> s.now,
                    nframes |-> Len(s.framesLog),
                    nevents |-> Len(s.events)]),
                !.resets = @ + 1]

\* config.x || this.x
OrElse(x, old) == IF Truthy(x) THEN x ELSE old

\* a field that the caller leaves out of config is undefined, here NULL
updateConfig(s, config) ==
  LET threshold == OrElse(config.vadThreshold, s.energyThreshold)
      timeout == OrElse(config.silenceTimeout, s.silenceTimeout)
  IN [s EXCEPT !.energyThreshold = threshold,
               !.silenceTimeout = timeout,
               !.adaptiveThreshold = threshold,
               !.configLog = Append(@,
                  [vadThreshold |-> config.vadThreshold,
                   silenceTimeout |-> config.silenceTimeout,
                   at |-> s.now, nframes |-> Len(s.framesLog),
                   thresholdBefore |-> s.energyThreshold,
                   timeoutBefore |-> s.silenceTimeout,
                   thresholdAfter |-> threshold,
                   timeoutAfter |-> timeout])]

\* the timer that has just run is no longer scheduled
Fired(s, k) ==
  [s EXCEPT !.timerTable[k].status = "fired",
            !.timerTable[k].doneAt = s.now,
            !.timerTable[k].doneFrame = Len(s.framesLog)]

\* ---------------------------------------------------------------- actions
DetectorInit ==
  /\ now = Epoch
  /\ energyThreshold = VadThreshold
  /\ silenceTimeout = SilenceTimeoutCfg
  /\ isSpeaking = FALSE
  /\ speechStartTime = NULL
  /\ speechEndTime = NULL
  /\ lastSpeechTime = NULL
  /\ audioBuffer = <<>>
  /\ frameBuffer = <<>>
  /\ noiseFloor = 1000
  /\ adaptiveThreshold = VadThreshold
  /\ speechStartTimer = NoTimer
  /\ speechEndTimer = NoTimer
  /\ silenceTimer = NoTimer
  /\ timerTable = <<>>
  /\ events = <<>>
  /\ fedLog = <<>>
  /\ framesLog = <<>>
  /\ closed = <<>>
  /\ resets = 0
  /\ configLog = <<>>

\* AudioAnalysis has no state: a frame is chosen and the functions are applied
AnalysisInit(f) ==
  /\ analysisFrame = f
  /\ features = <<>>

\* OpenAITranscriptionService after its constructor
QueueInit(en) ==
  /\ enabled = en
  /\ requestQueue = <<>>
  /\ processing = FALSE
  /\ recent = FALSE
  /\ loops = <<>>
  /\ submitted = 0
  /\ apiLog = <<>>
  /\ settled = <<>>

selectPrimaryService(p, openaiEnabled) ==
  IF p = "openai" /\ openaiEnabled THEN "openai"
  ELSE IF p = "local" THEN "local"
  ELSE IF p = "auto" THEN (IF openaiEnabled THEN "openai" ELSE "local")
  ELSE "local"

\* TranscriptionManager after its constructor: the initial health check has
\* been started and waits for the OpenAI service's answer
ManagerInit(p, openaiEnabled) ==
  /\ provider = p
  /\ primaryService = selectPrimaryService(p, openaiEnabled)
  /\ transcribeCalls = <<>>
  /\ healthChecks = <<[pc |-> "openai", openai |-> "none", local |-> "none",
               before |-> "none", after |-> "none"]>>
  /\ serviceLog = <<>>
  /\ managerEvents = <<>>

Init ==
  /\ DetectorInit
  /\ AnalysisInit(<<>>)
  /\ QueueInit(TRUE)
  /\ ManagerInit("auto", TRUE)

\* the samples of a block: amplitudes amps, ids continuing the input stream
Block(amps) == [i \in 1..Len(amps) |-> [id |-> Len(fedLog) + i, v |-> amps[i]]]

\* a call of processAudio; callbacks that are due run first
ProcessAudio(amps) ==
  /\ Due(timerTable, now) = {}
  /\ Install(processAudio(Cur, Block(amps)))

\* the clock moves on, at most up to the next deadline; while no timer is
\* pending and no segment is open the detector reads the clock only to take
\* time stamps, so idle time is left out
Advance(d, limit) ==
  /\ Due(timerTable, now) = {}
  /\ Pending(timerTable) # {} \/ isSpeaking
  /\ LET dues == {timerTable[k].due : k \in Pending(timerTable)}
         t == IF \E u \in dues : u <= now + d
              THEN CHOOSE u \in dues : \A w \in dues : u <= w
              ELSE now + d
     IN /\ t <= limit
        /\ now' = t
  /\ UNCHANGED <<energyThreshold, silenceTimeout, isSpeaking, speechStartTime,
                 speechEndTime, lastSpeechTime, audioBuffer, frameBuffer,
                 noiseFloor, adaptiveThreshold, speechStartTimer,
                 speechEndTimer, silenceTimer, timerTable, events, fedLog,
                 framesLog, closed, resets, configLog>>
  /\ UNCHANGED <<analysisVars, queueVars, managerVars>>

OnsetTimerFires ==
  \E k \in Due(timerTable, now) :
    /\ timerTable[k].kind = "onset"
    /\ Install(onsetCallback(Fired(Cur, k)))

OffsetTimerFires ==
  \E k \in Due(timerTable, now) :
    /\ timerTable[k].kind = "offset"
    /\ Install(offsetCallback(Fired(Cur, k)))

SilenceTimerFires ==
  \E k \in Due(timerTable, now) :
    /\ timerTable[k].kind = "silence"
    /\ Install(silenceCallback(Fired(Cur, k)))

Reset ==
  /\ resets < MaxResets
  /\ Due(timerTable, now) = {}
  /\ Install(reset(Cur))

\* blocks of one frame of constant amplitude, as the capture service sends
FrameBlocks == {[i \in 1..frameSize |-> v] : v \in Amps}

Feed ==
  \E amps \in FrameBlocks :
    /\ Len(fedLog) + Len(amps) <= MaxSamples
    /\ ProcessAudio(amps)

Tick == \E d \in Delays : Advance(d, MaxTime)

Next ==
  \/ Feed
  \/ Tick
  \/ OnsetTimerFires
  \/ OffsetTimerFires
  \/ SilenceTimerFires
  \/ Reset

Spec == Init /\ [][Next]_vars

\* blocks of any length up to MaxBlock, every sample with its own amplitude
AsmBlocks == UNION {[1..n -> Amps] : n \in 0..MaxBlock}

FeedAny ==
  \E amps \in AsmBlocks :
    /\ Len(fedLog) + Len(amps) <= MaxAsmSamples
    /\ ProcessAudio(amps)

NextAsm == FeedAny

SpecAsm == Init /\ [][NextAsm]_vars

\* a call of processFrame from outside, as the tests make it
ProcessFrame(frame) ==
  /\ Due(timerTable, now) = {}
  /\ Install(processFrame(Cur, frame))

UpdateConfig(config) ==
  /\ Due(timerTable, now) = {}
  /\ Install(updateConfig(Cur, config))

\* amplitudes of the reconfiguration specification: silence, 0.01 (the
\* configured threshold) and a sample that is not a number
CfgAmps == {0, 10, NaN}
CfgBlocks == {[i \in 1..frameSize |-> v] : v \in CfgAmps}
\* the configurations passed to updateConfig: one field each, and zeros
Configs == {[vadThreshold |-> LowThreshold, silenceTimeout |-> NULL],
            [vadThreshold |-> NULL, silenceTimeout |-> LongTimeout],
            [vadThreshold |-> 0, silenceTimeout |-> 0]}

\* the calls made so far: frames processed, updateConfig and reset
Calls == Len(framesLog) + Len(configLog) + resets

FeedCfg ==
  \E amps \in CfgBlocks :
    /\ Calls < MaxCfgCalls
    /\ ProcessAudio(amps)

\* processFrame called with a frame that has no samples
FeedEmpty ==
  /\ Calls < MaxCfgCalls
  /\ ProcessFrame(<<>>)

Reconfigure ==
  \E config \in Configs :
    /\ Calls < MaxCfgCalls
    /\ Len(configLog) < MaxConfigs
    /\ UpdateConfig(config)

ResetCfg ==
  /\ Calls < MaxCfgCalls
  /\ Reset

TickCfg == \E d \in CfgDelays : Advance(d, MaxCfgTime)

NextCfg ==
  \/ FeedCfg
  \/ FeedEmpty
  \/ Reconfigure
  \/ TickCfg
  \/ OnsetTimerFires
  \/ OffsetTimerFires
  \/ SilenceTimerFires
  \/ ResetCfg

SpecCfg == Init /\ [][NextCfg]_vars

\* --------------------------------------------------------- late callbacks
\* A timer callback runs at or after its deadline: here a call of processAudio
\* or reset may come at the deadline, before the callback that is due has run.
FeedLate ==
  \E amps \in FrameBlocks :
    /\ Calls < MaxLateCalls
    /\ Install(processAudio(Cur, Block(amps)))

ResetLate ==
  /\ Calls < MaxLateCalls
  /\ Install(reset(Cur))

TickLate == \E d \in CfgDelays : Advance(d, MaxCfgTime)

NextLate ==
  \/ FeedLate
  \/ ResetLate
  \/ TickLate
  \/ OnsetTimerFires
  \/ OffsetTimerFires
  \/ SilenceTimerFires

SpecLate == Init /\ [][NextLate]_vars

\* ------------------------------------------------------------------ pre-roll
\* blocks of several frames of constant amplitude, so that more than 300 ms
\* of audio (10 frames) are buffered before an onset is confirmed
TrimBlocks ==
  {[i \in 1..(frameSize * n) |-> v] : n \in TrimBlockFrames, v \in Amps}

FeedTrim ==
  \E amps \in TrimBlocks :
    /\ Len(fedLog) + Len(amps) <= MaxTrimSamples
    /\ ProcessAudio(amps)

TickTrim == \E d \in CfgDelays : Advance(d, MaxTime)

NextTrim ==
  \/ FeedTrim
  \/ TickTrim
  \/ OnsetTimerFires
  \/ OffsetTimerFires
  \/ SilenceTimerFires
  \/ Reset

SpecTrim == Init /\ [][NextTrim]_vars

\* ----------------------------------------------------------------- streaming
\* Frames keep being processed: while a segment is open a frame is processed
\* at every instant of the clock before the clock moves on.  The frames that
\* can open or prolong a segment (speech frames, and frames processed while
\* no segment is open) are limited in number, the non-speech frames
\* processed while a segment is open are not.
\* an instant the streaming clock does not reach: every frame that opens or
\* prolongs a segment accounts for less than one full segment and its close
StreamHorizon ==
  Epoch + (MaxStreamFrames + 1) * (maxChunkDuration + speechEndDelay)

FrameAtNow == framesLog # <<>> /\ framesLog[Len(framesLog)].at = now

BudgetFrames ==
  {n \in 1..Len(framesLog) :
     framesLog[n].isSpeech \/ ~framesLog[n].speakingBefore}

FeedStream ==
  \E amps \in FrameBlocks :
    /\ ~FrameAtNow
    /\ amps[1] # 0 \/ ~isSpeaking
         => Cardinality(BudgetFrames) < MaxStreamFrames
    /\ ProcessAudio(amps)

TickStream ==
  /\ isSpeaking => FrameAtNow
  /\ \E d \in CfgDelays : Advance(d, StreamHorizon)

NextStream ==
  \/ FeedStream
  \/ TickStream
  \/ OnsetTimerFires
  \/ OffsetTimerFires
  \/ SilenceTimerFires

SpecStream == Init /\ [][NextStream]_vars

\* the steps of FeedStream, told by the input log: a frame is handed over
FrameArrives ==
  \E amps \in FrameBlocks :
    /\ ~FrameAtNow
    /\ amps[1] # 0 \/ ~isSpeaking
         => Cardinality(BudgetFrames) < MaxStreamFrames
    /\ Due(timerTable, now) = {}
    /\ fedLog' = fedLog \o Block(amps)

\* timers run when due, the clock moves on, and frames keep coming
SpecStreamFair ==
  /\ SpecStream
  /\ WF_fedLog(FrameArrives)
  /\ WF_vars(TickStream)
  /\ WF_vars(OnsetTimerFires)
  /\ WF_vars(OffsetTimerFires)
  /\ WF_vars(SilenceTimerFires)

\* ------------------------------------------------------------ AudioAnalysis
\* Frames here are sequences of amplitudes (1e-3).  A rate is kept as the pair
\* of its numerator and denominator, so that comparing it with 0.1 is exact.
RECURSIVE SumSquares(_)
SumSquares(frame) ==
  IF frame = <<>> THEN 0
  ELSE Head(frame) * Head(frame) + SumSquares(Tail(frame))

\* the loop of calculateZeroCrossingRate, i = 1 .. frame.length - 1 (0-based)
RECURSIVE crossingsFromPositive(_, _)
crossingsFromPositive(frame, i) ==
  IF i > Len(frame) THEN 0
  ELSE (IF (frame[i] > 0) # (frame[i - 1] > 0) THEN 1 ELSE 0)
       + crossingsFromPositive(frame, i + 1)
RECURSIVE crossingsFrom(_, _)
crossingsFrom(frame, i) ==
  IF i > Len(frame) THEN 0
  ELSE (IF (frame[i] >= 0) # (frame[i - 1] >= 0) THEN 1 ELSE 0)
       + crossingsFrom(frame, i + 1)

calculateZeroCrossingRatePositive(frame) ==
  [num |-> crossingsFromPositive(frame, 2), den |-> Len(frame)]
calculateZeroCrossingRate(frame) ==
  [num |-> crossingsFrom(frame, 2), den |-> Len(frame)]

calculateFrameEnergy(frame) ==
  IF Len(frame) = 0 THEN NaN
  ELSE Isqrt(SumSquares(frame) \div Len(frame)) * 1000

classifyFrameAtMost(frame, energy) ==
  LET zcr == calculateZeroCrossingRate(frame)
  IN IF energy # NaN /\ energy <= 10000 THEN "silence"
     ELSE IF zcr.den # 0 /\ zcr.num * 10 > zcr.den THEN "unvoiced"
     ELSE "voiced"
classifyFrame(frame, energy) ==
  LET zcr == calculateZeroCrossingRate(frame)
  IN IF energy # NaN /\ energy < 10000 THEN "silence"
     ELSE IF zcr.den # 0 /\ zcr.num * 10 > zcr.den THEN "unvoiced"
     ELSE "voiced"

\* spectralCentroid and periodicity are left out: no other field reads them
extractVADFeatures(frame) ==
  LET energy == calculateFrameEnergy(frame)
      zcr == calculateZeroCrossingRate(frame)
      frameClass == classifyFrame(frame, energy)
  IN [energy |-> energy, zcr |-> zcr, frameClass |-> frameClass,
      isSpeechLikely |-> Greater(energy, 10000)
                         /\ (frameClass = "voiced" \/ frameClass = "unvoiced")]

\* energies passed to classifyFrame (1e-6)
AnalysisEnergies == {0, 9999, 10000, 10001, NaN}

\* short frames over every amplitude, long frames without quiet samples
AnalysisFrames ==
  UNION {[1..n -> AnalysisAmps] : n \in 1..MaxMixedLen}
  \cup UNION {[1..n -> LoudAmps] : n \in (MaxMixedLen + 1)..MaxAnalysisLen}

InitAnalysis ==
  /\ DetectorInit
  /\ \E f \in AnalysisFrames : AnalysisInit(f)
  /\ QueueInit(TRUE)
  /\ ManagerInit("auto", TRUE)

Returned(result) ==
  /\ features = <<>>
  /\ features' = Append(features, result)
  /\ UNCHANGED <<analysisFrame, detectorVars, queueVars, managerVars>>

CalculateZeroCrossingRate ==
  Returned([op |-> "calculateZeroCrossingRate",
            zcr |-> calculateZeroCrossingRate(analysisFrame)])

ClassifyFrame ==
  \E energy \in AnalysisEnergies :
    Returned([op |-> "classifyFrame", energy |-> energy,
              frameClass |-> classifyFrame(analysisFrame, energy)])

ExtractVADFeatures ==
  Returned([op |-> "extractVADFeatures"] @@ extractVADFeatures(analysisFrame))

NextAnalysis ==
  \/ CalculateZeroCrossingRate
  \/ ClassifyFrame
  \/ ExtractVADFeatures

SpecAnalysis == InitAnalysis /\ [][NextAnalysis]_vars

\* ------------------------------------------------ OpenAITranscriptionService
\* A request is the number of the transcribe() call that queued it.  Errors
\* and results are records of one shape: an error carries what
\* isRetryableError reads, a parsed result carries the response it came from.
Value(name, code, response, status) ==
  [name |-> name, code |-> code, response |-> response, status |-> status]
NoValue == Value("none", "none", 0, 0)
NotConfigured == Value("NotConfigured", "none", 0, 0)
TypeError == Value("TypeError", "none", 0, 0)
ApiError(code, response, status) == Value("Error", code, response, status)

\* parseResponse: a response without properties to read makes it throw
parseResponse(response) == Value("result", response, 0, 0)

isRetryableError(error) ==
  IF error.code \in {"ECONNRESET", "ETIMEDOUT", "ENOTFOUND"} THEN TRUE
  ELSE LET status == IF error.response # 0 THEN error.response
                     ELSE error.status
       IN status \in {429, 500, 502, 503, 504}

\* what the API call rejects with: a network error or an authentication error
ApiErrors == {ApiError("ECONNRESET", 0, 0), ApiError("none", 0, 401)}

\* the service as one record, for the operators that model its methods
QueueCur ==
  [enabled |-> enabled, requestQueue |-> requestQueue,
   processing |-> processing, recent |-> recent, loops |-> loops,
   submitted |-> submitted, apiLog |-> apiLog, settled |-> settled]

QueueInstall(q) ==
  /\ enabled' = q.enabled
  /\ requestQueue' = q.requestQueue
  /\ processing' = q.processing
  /\ recent' = q.recent
  /\ loops' = q.loops
  /\ submitted' = q.submitted
  /\ apiLog' = q.apiLog
  /\ settled' = q.settled
  /\ UNCHANGED <<detectorVars, analysisVars, managerVars>>

\* request.resolve / request.reject
Settle(q, request, how, value) ==
  [q EXCEPT !.settled = Append(@, [request |-> request, how |-> how,
                                   value |-> value])]

\* processQueue invocation l calls callWhisperAPI and waits for it
callWhisperAPI(q, l) ==
  [q EXCEPT !.loops[l].pc = "api",
            !.apiLog = Append(@, [request |-> q.loops[l].request,
                                  attempt |-> q.loops[l].attempt,
                                  loop |-> l, outcome |-> NoValue])]

\* processRequest up to its first await
processRequest(q, l) ==
  callWhisperAPI([q EXCEPT !.loops[l].attempt = 0,
                           !.loops[l].lastError = NoValue], l)

\* processRequest has returned or thrown; processQueue resumes one tick later
Return(q, l, how, value) ==
  [q EXCEPT !.loops[l].pc = "returned", !.loops[l].how = how,
            !.loops[l].value = value]

\* the while loop of processQueue from its test up to the next await
whileLoop(q, l) ==
  IF Len(q.requestQueue) > 0
  THEN LET q1 == [q EXCEPT !.requestQueue = Tail(@),
                           !.loops[l].request = Head(q.requestQueue)]
       IN IF q1.recent THEN [q1 EXCEPT !.loops[l].pc = "rateSleep"]
          ELSE processRequest(q1, l)
  ELSE [q EXCEPT !.processing = FALSE, !.loops[l].pc = "done",
                 !.loops[l].request = 0]

processQueueUnguarded(q) ==
  IF Len(q.requestQueue) = 0 THEN q
  ELSE LET l == Len(q.loops) + 1
           q1 == [q EXCEPT !.processing = TRUE,
                           !.loops = Append(@, [pc |-> "start", request |-> 0,
                                                attempt |-> 0,
                                                lastError |-> NoValue,
                                                how |-> "none",
                                                value |-> NoValue])]
       IN whileLoop(q1, l)
processQueue(q) ==
  IF q.processing \/ Len(q.requestQueue) = 0 THEN q
  ELSE LET l == Len(q.loops) + 1
           q1 == [q EXCEPT !.processing = TRUE,
                           !.loops = Append(@, [pc |-> "start", request |-> 0,
                                                attempt |-> 0,
                                                lastError |-> NoValue,
                                                how |-> "none",
                                                value |-> NoValue])]
       IN whileLoop(q1, l)

transcribe(q, request) ==
  IF ~q.enabled THEN Settle(q, request, "rejected", NotConfigured)
  ELSE processQueue([q EXCEPT !.requestQueue = Append(@, request)])

\* the catch block of processRequest and what follows it (lines 80-97)
onApiErrorAlwaysRetry(q, l, error) ==
  LET q1 == [q EXCEPT !.loops[l].lastError = error]
  IN IF q.loops[l].attempt < maxRetries - 1
     THEN [q1 EXCEPT !.loops[l].pc = "backoff"]
     ELSE Return(q1, l, "threw", error)
onApiError(q, l, error) ==
  LET q1 == [q EXCEPT !.loops[l].lastError = error]
  IN IF ~isRetryableError(error) THEN Return(q1, l, "threw", error)
     ELSE IF q.loops[l].attempt < maxRetries - 1
     THEN [q1 EXCEPT !.loops[l].pc = "backoff"]
     ELSE Return(q1, l, "threw", error)

\* the API call of invocation l ends; outcome is the response or the error
Answered(q, l, outcome) ==
  LET n == CHOOSE n \in DOMAIN q.apiLog :
             q.apiLog[n].loop = l /\ q.apiLog[n].outcome = NoValue
  IN [q EXCEPT !.apiLog[n].outcome = outcome]

onApiResponse(q, l, response) ==
  LET q1 == Answered(q, l, Value("response", response, 0, 0))
  IN IF response = "null" THEN onApiError(q1, l, TypeError)
     ELSE Return(q1, l, "returned", parseResponse(response))

onApiRejection(q, l, error) == onApiError(Answered(q, l, error), l, error)

\* the back-off sleep is over: attempt++ and the next call
retry(q, l) == callWhisperAPI([q EXCEPT !.loops[l].attempt = @ + 1], l)

\* processQueue after `await this.processRequest(request)` (lines 56-62)
resumeNoCatch(q, l) ==
  LET me == q.loops[l]
  IN IF me.how = "returned"
     THEN whileLoop([Settle(q, me.request, "resolved", me.value)
                       EXCEPT !.recent = TRUE], l)
     ELSE [q EXCEPT !.loops[l].pc = "done"]
resume(q, l) ==
  LET me == q.loops[l]
  IN IF me.how = "returned"
     THEN whileLoop([Settle(q, me.request, "resolved", me.value)
                       EXCEPT !.recent = TRUE], l)
     ELSE whileLoop(Settle(q, me.request, "rejected", me.value), l)

InitQueue ==
  /\ DetectorInit
  /\ AnalysisInit(<<>>)
  /\ \E en \in BOOLEAN : QueueInit(en)
  /\ ManagerInit("auto", TRUE)

At(pc) == {l \in DOMAIN loops : loops[l].pc = pc}

Transcribe ==
  /\ submitted < MaxRequests
  /\ QueueInstall(transcribe([QueueCur EXCEPT !.submitted = @ + 1],
                             submitted + 1))

RateSleepEnds ==
  \E l \in At("rateSleep") : QueueInstall(processRequest(QueueCur, l))

BackoffEnds ==
  \E l \in At("backoff") : QueueInstall(retry(QueueCur, l))

ApiResolves ==
  \E l \in At("api") : \E response \in Responses :
    QueueInstall(onApiResponse(QueueCur, l, response))

ApiRejects ==
  \E l \in At("api") : \E error \in ApiErrors :
    QueueInstall(onApiRejection(QueueCur, l, error))

QueueResumes ==
  \E l \in At("returned") : QueueInstall(resume(QueueCur, l))

\* minRequestInterval has passed since lastRequestTime
IntervalElapses ==
  /\ recent
  /\ recent' = FALSE
  /\ UNCHANGED <<enabled, requestQueue, processing, loops, submitted, apiLog,
                 settled, detectorVars, analysisVars, managerVars>>

NextQueue ==
  \/ Transcribe
  \/ RateSleepEnds
  \/ BackoffEnds
  \/ ApiResolves
  \/ ApiRejects
  \/ QueueResumes
  \/ IntervalElapses

SpecQueue == InitQueue /\ [][NextQueue]_vars

\* every API call and every sleep ends, and a resumed function runs on
SpecQueueFair ==
  /\ InitQueue
  /\ [][NextQueue]_vars
  /\ WF_vars(ApiResolves \/ ApiRejects)
  /\ WF_vars(RateSleepEnds)
  /\ WF_vars(BackoffEnds)
  /\ WF_vars(QueueResumes)

\* every error isRetryableError tells apart, one property set at a time
ErrorCodes == {"ECONNRESET", "ETIMEDOUT", "ENOTFOUND", "EPIPE"}
ErrorStatuses == {400, 401, 429, 500, 502, 503, 504}
AllErrors ==
  {ApiError(c, 0, 0) : c \in ErrorCodes}
  \cup {ApiError("none", s, 0) : s \in ErrorStatuses}
  \cup {ApiError("none", 0, s) : s \in ErrorStatuses}

\* the first API call of a run may fail with any of these errors
ApiRejectsFirst ==
  /\ Len(apiLog) = 1
  /\ \E l \in At("api") : \E error \in AllErrors :
       QueueInstall(onApiRejection(QueueCur, l, error))

NextRetry ==
  \/ NextQueue
  \/ ApiRejectsFirst

SpecRetry == InitQueue /\ [][NextRetry]_vars

\* -------------------------------------------------------- TranscriptionManager
\* The two services are taken at the interface the manager uses: transcribe()
\* resolves or rejects, checkHealth() reports healthy or not.  A disabled
\* OpenAI service always rejects and is never healthy.  A transcribe() call of
\* the manager is identified by its number, which stands for its audio and
\* options; a result or error is identified by the service call it came from.

\* this.primaryService.transcribe(audioData, options) / localService.transcribe
callService(log, call, service) ==
  Append(log, [call |-> call, service |-> service, args |-> call,
               outcome |-> "pending"])

PendingCall(call) ==
  CHOOSE n \in DOMAIN serviceLog :
    serviceLog[n].call = call /\ serviceLog[n].outcome = "pending"

\* the failover rule of checkHealth (lines 106-117)
failoverAnyMode(mode, primary, openaiHealthy, localHealthy) ==
  IF ~openaiHealthy /\ localHealthy THEN "local"
  ELSE IF openaiHealthy /\ primary = "local" THEN "openai"
  ELSE primary
failover(mode, primary, openaiHealthy, localHealthy) ==
  IF mode = "auto"
  THEN (IF ~openaiHealthy /\ localHealthy THEN "local"
        ELSE IF openaiHealthy /\ primary = "local" THEN "openai"
        ELSE primary)
  ELSE primary

\* the fallback test of transcribe's catch block (line 57)
fallsBack(primary) == primary = "openai"

InitManager ==
  /\ DetectorInit
  /\ AnalysisInit(<<>>)
  /\ \E en \in BOOLEAN :
       /\ QueueInit(en)
       /\ \E p \in Providers : ManagerInit(p, en)

Outcomes(service) ==
  IF service = "openai" /\ ~enabled THEN {FALSE} ELSE BOOLEAN

\* calls made on the manager so far, the constructor's checkHealth() included
ManagerCalls == Len(transcribeCalls) + Len(healthChecks)

\* transcribe() up to `await this.primaryService.transcribe(...)`
ManagerTranscribe ==
  /\ ManagerCalls < MaxManagerCalls
  /\ LET call == Len(transcribeCalls) + 1
     IN /\ serviceLog' = callService(serviceLog, call, primaryService)
        /\ transcribeCalls' =
             Append(transcribeCalls,
                    [pc |-> "primary", primaryAtCall |-> primaryService,
                     how |-> "none", from |-> 0])
  /\ UNCHANGED <<provider, primaryService, healthChecks, managerEvents,
                 detectorVars, analysisVars, queueVars>>

\* the first attempt resolves or rejects and transcribe() runs on
PrimarySettles ==
  \E call \in DOMAIN transcribeCalls :
    /\ transcribeCalls[call].pc = "primary"
    /\ LET n == PendingCall(call)
       IN \E ok \in Outcomes(serviceLog[n].service) :
            IF ok
            THEN /\ serviceLog' = [serviceLog EXCEPT ![n].outcome = "resolved"]
                 /\ managerEvents' =
                      Append(managerEvents,
                             [type |-> "transcription", call |-> call,
                              service |-> primaryService, fallback |-> FALSE,
                              from |-> n])
                 /\ transcribeCalls' =
                      [transcribeCalls EXCEPT ![call].pc = "done",
                                              ![call].how = "returned",
                                              ![call].from = n]
            ELSE IF fallsBack(primaryService)
            THEN /\ serviceLog' =
                      callService([serviceLog EXCEPT ![n].outcome = "rejected"],
                                  call, "local")
                 /\ transcribeCalls' =
                      [transcribeCalls EXCEPT ![call].pc = "fallback"]
                 /\ UNCHANGED managerEvents
            ELSE /\ serviceLog' = [serviceLog EXCEPT ![n].outcome = "rejected"]
                 /\ transcribeCalls' =
                      [transcribeCalls EXCEPT ![call].pc = "done",
                                              ![call].how = "threw",
                                              ![call].from = n]
                 /\ UNCHANGED managerEvents
    /\ UNCHANGED <<provider, primaryService, healthChecks, detectorVars,
                   analysisVars, queueVars>>

\* the fallback attempt resolves or rejects
FallbackSettles ==
  \E call \in DOMAIN transcribeCalls :
    /\ transcribeCalls[call].pc = "fallback"
    /\ LET n == PendingCall(call)
       IN \E ok \in Outcomes("local") :
            /\ serviceLog' =
                 [serviceLog EXCEPT ![n].outcome =
                                      IF ok THEN "resolved" ELSE "rejected"]
            /\ transcribeCalls' =
                 [transcribeCalls EXCEPT ![call].pc = "done",
                                         ![call].how =
                                           IF ok THEN "returned" ELSE "threw",
                                         ![call].from = n]
            /\ managerEvents' =
                 IF ok
                 THEN Append(managerEvents,
                             [type |-> "transcription", call |-> call,
                              service |-> "local", fallback |-> TRUE,
                              from |-> n])
                 ELSE managerEvents
    /\ UNCHANGED <<provider, primaryService, healthChecks, detectorVars,
                   analysisVars, queueVars>>

\* checkHealth() is called, by the interval timer or from outside
CheckHealth ==
  /\ ManagerCalls < MaxManagerCalls
  /\ healthChecks' =
       Append(healthChecks,
              [pc |-> "openai", openai |-> "none", local |-> "none",
               before |-> "none", after |-> "none"])
  /\ UNCHANGED <<provider, primaryService, transcribeCalls, serviceLog,
                 managerEvents, detectorVars, analysisVars, queueVars>>

\* openaiService.checkHealth() answers; localService.checkHealth() is called
OpenAIHealthSettles ==
  \E h \in DOMAIN healthChecks :
    /\ healthChecks[h].pc = "openai"
    /\ \E healthy \in Outcomes("openai") :
         healthChecks' =
           [healthChecks EXCEPT ![h].pc = "local",
                                ![h].openai =
                                  IF healthy THEN "healthy" ELSE "unhealthy"]
    /\ UNCHANGED <<provider, primaryService, transcribeCalls, serviceLog,
                   managerEvents, detectorVars, analysisVars, queueVars>>

\* localService.checkHealth() answers and checkHealth() runs to its end
LocalHealthSettles ==
  \E h \in DOMAIN healthChecks :
    /\ healthChecks[h].pc = "local"
    /\ \E healthy \in Outcomes("local") :
         /\ primaryService' =
              failover(provider, primaryService,
                       healthChecks[h].openai = "healthy", healthy)
         /\ healthChecks' =
              [healthChecks EXCEPT ![h].pc = "done",
                                   ![h].local =
                                     IF healthy THEN "healthy" ELSE "unhealthy",
                                   ![h].before = primaryService,
                                   ![h].after = primaryService']
         /\ managerEvents' =
              Append(managerEvents,
                     [type |-> "health", call |-> h,
                      service |-> primaryService', fallback |-> FALSE,
                      from |-> 0])
    /\ UNCHANGED <<provider, transcribeCalls, serviceLog, detectorVars,
                   analysisVars, queueVars>>

NextManager ==
  \/ ManagerTranscribe
  \/ PrimarySettles
  \/ FallbackSettles
  \/ CheckHealth
  \/ OpenAIHealthSettles
  \/ LocalHealthSettles

SpecManager == InitManager /\ [][NextManager]_vars

\* ------------------------------------------------------ reading the logs
RECURSIVE FrameSamples(_, _)
\* the samples of the frames number a to b handed to processFrame, in order
FrameSamples(a, b) ==
  IF a > b THEN <<>> ELSE FrameSamples(a, b - 1) \o framesLog[b].samples

IsSuffix(x, y) ==
  /\ Len(x) <= Len(y)
  /\ x = SubSeq(y, Len(y) - Len(x) + 1, Len(y))

Timers(kind) == {k \in DOMAIN timerTable : timerTable[k].kind = kind}
Events(type) == {i \in DOMAIN events : events[i].type = type}
OnsetEvents == {i \in Events("speechStart") : events[i].reason = "onset"}
SilenceEnds == {i \in Events("speechEnd") : events[i].reason = "silence"}

\* ------------------------------------------------------------------ claims

\* C1: the frames handed to processFrame, concatenated in call order and
\* followed by the remainder left in frameBuffer, are exactly the samples
\* passed to processAudio so far: none dropped, duplicated or reordered.
C1_Lossless ==
  FrameSamples(1, Len(framesLog)) \o frameBuffer = fedLog

\* C1 witness: several frames were cut out of blocks of different lengths and
\* a partial frame is left over.
C1_Witness ==
  /\ Len(framesLog) >= 3
  /\ frameBuffer # <<>>
  /\ \E i \in DOMAIN fedLog : fedLog[i].v # fedLog[1].v

\* C2: every onset timer is started by a speech frame met while not speaking;
\* if it is not cancelled it runs exactly 300 ms later, and that is when the
\* one speechStart of this onset is emitted, never earlier; a speech frame
\* met while not speaking always leaves an onset timer pending.
C2_OnsetDelay ==
  /\ \A n \in DOMAIN framesLog :
       framesLog[n].isSpeech /\ ~framesLog[n].speakingBefore
         => framesLog[n].onsetAfter # {}
  /\ \A k \in Timers("onset") :
       LET t == timerTable[k]
           mine == {i \in OnsetEvents :
                      events[i].nframes >= t.armFrame /\ events[i].at >= t.armedAt
                      /\ events[i].at <= t.armedAt + 300}
       IN /\ t.armFrame \in DOMAIN framesLog
          /\ framesLog[t.armFrame].isSpeech
          /\ ~framesLog[t.armFrame].speakingBefore
          /\ framesLog[t.armFrame].at = t.armedAt
          /\ t.status = "pending" => now <= t.armedAt + 300 /\ mine = {}
          /\ t.status = "fired" =>
               /\ t.doneAt = t.armedAt + 300
               /\ Cardinality(mine) = 1
               /\ \A i \in mine : events[i].at = t.armedAt + 300
  /\ Cardinality(OnsetEvents) =
       Cardinality({k \in Timers("onset") : timerTable[k].status = "fired"})

\* C2 witness: an onset was confirmed.
C2_Witness ==
  \E k \in Timers("onset") : timerTable[k].status = "fired" /\ isSpeaking

\* C3: a non-speech frame cancels a pending onset timer, so an onset timer
\* that runs (sets isSpeaking and emits speechStart) was not followed by a
\* non-speech frame while it was pending.
C3_OnsetCancelled ==
  \A k \in Timers("onset") :
    timerTable[k].status = "fired" =>
      \A j \in (timerTable[k].armFrame + 1)..timerTable[k].doneFrame :
        framesLog[j].isSpeech

ClosingsAfter(k) ==
  {c \in DOMAIN closed :
     /\ closed[c].reason # "reset"
     /\ closed[c].nframes >= timerTable[k].armFrame
     /\ \A j \in (timerTable[k].armFrame + 1)..closed[c].nframes :
          ~framesLog[j].isSpeech}

\* C5 as stated: when a non-speech frame met while speaking starts the offset
\* timer and no speech frame follows, the segment is not finalized earlier
\* than 1000 ms after that frame.
C5_NotEarlier ==
  \A k \in Timers("offset") :
    \A c \in ClosingsAfter(k) :
      closed[c].at >= timerTable[k].armedAt + 1000

C5_Inv ==
  /\ \A k \in Timers("offset") :
       LET t == timerTable[k]
       IN /\ t.armFrame \in DOMAIN framesLog
          /\ ~framesLog[t.armFrame].isSpeech
          /\ framesLog[t.armFrame].speakingBefore
          /\ framesLog[t.armFrame].at = t.armedAt
          /\ t.status = "pending" => isSpeaking /\ now <= t.armedAt + 1000
          /\ t.status = "fired" =>
               /\ t.doneAt = t.armedAt + 1000
               /\ \E c \in DOMAIN closed :
                    /\ closed[c].reason = "silence"
                    /\ closed[c].at = t.doneAt
                    /\ closed[c].nframes = t.doneFrame
          /\ \A c \in ClosingsAfter(k) :
               closed[c].at < t.armedAt + 1000
                 => closed[c].reason = "max_duration"
  /\ \A c \in DOMAIN closed :
       closed[c].reason = "silence" =>
         \E k \in Timers("offset") :
           /\ timerTable[k].status = "fired"
           /\ timerTable[k].doneAt = closed[c].at
           /\ timerTable[k].doneFrame = closed[c].nframes

C5_Step ==
  (\E k \in PendingOf(timerTable, "offset") : timerTable'[k].status = "fired")
    => /\ ~isSpeaking'
       /\ audioBuffer' = <<>>
       /\ speechStartTime' = NULL
       /\ PendingOf(timerTable', "onset") = {}
       /\ events' =
            IF now - speechStartTime >= 1000
            THEN Append(events,
                   [type |-> "speechEnd", audio |-> audioBuffer,
                    duration |-> now - speechStartTime,
                    timestamp |-> speechStartTime, reason |-> "silence",
                    at |-> now, nframes |-> Len(framesLog)])
            ELSE events

\* C5 as amended: an offset timer is started by a non-speech frame met while
\* speaking; unless a speech frame or reset cancels it, it runs exactly
\* 1000 ms later and then finalizes the segment open at that moment
\* (speechEnd with reason silence if that segment lasted 1000 ms, buffer
\* emptied, start timestamp cleared, not speaking, no onset timer pending);
\* before that the segment is finalized only by a maximum-duration cut.
C5_OffsetFinalization == [](C5_Inv) /\ [][C5_Step]_vars

\* C5 witness: an offset timer ran 1000 ms after a non-speech frame and the
\* segment was emitted with reason silence.
C5_Witness ==
  /\ ~isSpeaking
  /\ audioBuffer = <<>>
  /\ \E k \in Timers("offset") :
       /\ timerTable[k].status = "fired"
       /\ timerTable[k].doneAt = now
       /\ \E i \in SilenceEnds : events[i].at = now

C6_Inv ==
  /\ \A i \in Events("speechEnd") :
       /\ events[i].duration >= 1000
       /\ \E j \in OnsetEvents : j < i
  /\ \A c \in DOMAIN closed :
       closed[c].reason = "silence" /\ closed[c].duration < 1000 =>
         ~\E i \in SilenceEnds :
            events[i].at = closed[c].at /\ events[i].nframes = closed[c].nframes

C6_Step ==
  /\ (\E k \in PendingOf(timerTable, "offset") : timerTable'[k].status = "fired")
  /\ now - speechStartTime < 1000
  => events' = events /\ audioBuffer' = <<>>

\* C6: a segment that the offset timer finalizes less than 1000 ms after its
\* start timestamp is dropped without an event and the buffer is emptied;
\* every speechEnd carries a duration of at least 1000 ms and comes after a
\* confirmed onset.
C6_MinDuration == [](C6_Inv) /\ [][C6_Step]_vars

\* C6 witness: the offset timer finalized a segment younger than 1000 ms, and
\* a speechEnd was emitted before.
C6_Witness ==
  /\ \E c \in DOMAIN closed :
       /\ closed[c].reason = "silence"
       /\ closed[c].duration < 1000
       /\ closed[c].audio # <<>>
  /\ Events("speechEnd") # {}

\* C7: a frame met while speaking, 3000 ms or more after the start timestamp,
\* emits speechEnd with reason max_duration and then speechStart for the
\* continuation, and nothing else, whether the frame is speech or not and
\* whether an offset timer is pending or not.
C7_ForceCut ==
  \A n \in DOMAIN framesLog :
    LET f == framesLog[n]
    IN f.speakingBefore /\ f.at - f.startBefore >= 3000 =>
         /\ f.evAfter = f.evBefore + 2
         /\ events[f.evBefore + 1].type = "speechEnd"
         /\ events[f.evBefore + 1].reason = "max_duration"
         /\ events[f.evBefore + 1].at = f.at
         /\ events[f.evBefore + 1].timestamp = f.startBefore
         /\ events[f.evBefore + 1].audio = f.bufBefore \o f.samples
         /\ events[f.evBefore + 2].type = "speechStart"
         /\ events[f.evBefore + 2].reason = "continued"
         /\ events[f.evBefore + 2].at = f.at

\* C7 witness: a non-speech frame forced the cut exactly 3000 ms after the
\* start, 500 ms into the end delay, while the offset timer was pending.
C7_Witness ==
  \E n \in DOMAIN framesLog :
    /\ framesLog[n].speakingBefore
    /\ ~framesLog[n].isSpeech
    /\ framesLog[n].at - framesLog[n].startBefore = 3000
    /\ framesLog[n].evAfter = framesLog[n].evBefore + 2
    /\ \E k \in Timers("offset") :
         /\ timerTable[k].armFrame < n
         /\ timerTable[k].due > framesLog[n].at
         /\ timerTable[k].status # "cancelled"

\* the segment buffers in the order they were given up, the current buffer last
Buf(i) == IF i <= Len(closed) THEN closed[i].audio ELSE audioBuffer
Upto(i) == IF i <= Len(closed) THEN closed[i].nframes ELSE Len(framesLog)
From(i) == IF i = 1 THEN 0 ELSE closed[i - 1].nframes
\* the number of frames processed when the segment of buffer i was opened
OpenedAt(i) ==
  LET upto == IF i <= Len(closed) THEN closed[i].nevents ELSE Len(events)
      starts == {j \in Events("speechStart") : j <= upto}
      last == CHOOSE j \in starts : \A j2 \in starts : j2 <= j
  IN events[last].nframes

\* C8: the audio closed by a maximum-duration cut ends with the frame that
\* forced the cut, the next buffer holds exactly the frames processed after
\* it, and every segment buffer is an unbroken run of processed frames that
\* starts no later than the first frame after the segment was opened and ends
\* with the last frame processed before the buffer was given up.
C8_NoGap ==
  \A i \in 1..(Len(closed) + 1) :
    /\ IsSuffix(Buf(i), FrameSamples(From(i) + 1, Upto(i)))
    /\ i > 1 /\ closed[i - 1].reason = "max_duration"
         => Buf(i) = FrameSamples(From(i) + 1, Upto(i))
    /\ i <= Len(closed) /\ closed[i].reason = "max_duration" =>
         /\ closed[i].emitted
         /\ events[closed[i].nevents + 1].audio = closed[i].audio
         /\ framesLog[closed[i].nframes].at = closed[i].at
         /\ framesLog[closed[i].nframes].evBefore = closed[i].nevents
         /\ IsSuffix(framesLog[closed[i].nframes].samples, closed[i].audio)
    /\ \/ i <= Len(closed) /\ closed[i].reason # "reset"
       \/ i > Len(closed) /\ isSpeaking
       => IsSuffix(FrameSamples(OpenedAt(i) + 1, Upto(i)), Buf(i))

\* C8 witness: a cut, a frame processed after it, and the re-opened segment
\* finalized in its turn.
C8_Witness ==
  \E i \in DOMAIN closed :
    /\ closed[i].reason = "max_duration"
    /\ i < Len(closed)
    /\ closed[i + 1].reason = "silence"
    /\ closed[i + 1].nframes > closed[i].nframes
    /\ closed[i + 1].emitted

\* C9: after a frame that forced a cut the detector is speaking, the start
\* timestamp is the time of the cut and no offset timer is pending.
C9_FreshAfterCut ==
  \A n \in DOMAIN framesLog :
    LET f == framesLog[n]
    IN f.evAfter > f.evBefore =>
         /\ f.speakingAfter
         /\ f.startAfter = f.at
         /\ f.offsetAfter = {}

\* C10: between two silenceTimeout events a speech frame was processed.
C10_OncePerEpisode ==
  \A i, j \in Events("silenceTimeout") :
    i < j =>
      \E n \in (events[i].nframes + 1)..events[j].nframes :
        framesLog[n].isSpeech

\* the reset() calls made after frame a was processed and before frame b
ResetsBetween(a, b) ==
  {c \in DOMAIN closed :
     closed[c].reason = "reset" /\ closed[c].nframes >= a /\ closed[c].nframes < b}

\* a speech frame was processed before frame n, and no reset() since
SpeechSince(n) ==
  \E m \in 1..(n - 1) : framesLog[m].isSpeech /\ ResetsBetween(m, n) = {}

\* the silence timeout in force when frame n was processed: the configured
\* one, or the last non-zero one passed to updateConfig before
TimeoutAt(n) ==
  LET cs == {c \in DOMAIN configLog :
               configLog[c].nframes < n /\ Truthy(configLog[c].silenceTimeout)}
  IN IF cs = {} THEN SilenceTimeoutCfg
     ELSE configLog[CHOOSE c \in cs : \A c2 \in cs : c2 <= c].silenceTimeout

SilenceEvents(k) ==
  {i \in Events("silenceTimeout") :
     events[i].at = timerTable[k].doneAt
     /\ events[i].nframes = timerTable[k].doneFrame}

C12_SilenceSafety ==
  /\ \A i \in Events("silenceTimeout") :
       \E k \in Timers("silence") :
         LET tm == timerTable[k]
         IN /\ tm.status = "fired"
            /\ i \in SilenceEvents(k)
            /\ events[i].at - tm.armedAt = TimeoutAt(tm.armFrame)
            /\ SpeechSince(tm.armFrame)
            /\ \A c \in ResetsBetween(tm.armFrame, tm.doneFrame + 1) :
                 closed[c].nevents >= i
            /\ \A n \in tm.armFrame..tm.doneFrame :
                 /\ ~framesLog[n].isSpeech
                 /\ framesLog[n].at >= tm.armedAt
                 /\ framesLog[n].at <= events[i].at
            /\ \A n \in DOMAIN framesLog :
                 framesLog[n].isSpeech /\ framesLog[n].at > tm.armedAt
                   => n > tm.doneFrame
  /\ \A n \in DOMAIN framesLog :
       framesLog[n].isSpeech => framesLog[n].silenceAfter = {}
  /\ \A k \in PendingOf(timerTable, "silence") :
       \A n \in timerTable[k].armFrame..Len(framesLog) : ~framesLog[n].isSpeech

\* C12 witness: a countdown was cancelled by a speech frame, a later one ran
\* to its end.
C12_Witness ==
  /\ \E k \in Timers("silence") :
       /\ timerTable[k].status = "cancelled"
       /\ framesLog[timerTable[k].doneFrame].isSpeech
  /\ \E k \in Timers("silence") :
       timerTable[k].status = "fired" /\ SilenceEvents(k) # {}

C13_Inv ==
  \A c \in DOMAIN closed :
    closed[c].reason = "reset" /\ closed[c].nframes = Len(framesLog) =>
      /\ Len(events) = closed[c].nevents
      /\ Pending(timerTable) = {}
      /\ ~isSpeaking
      /\ audioBuffer = <<>>

C13_Step ==
  resets' = resets + 1 =>
    /\ Pending(timerTable') = {}
    /\ \A k \in Pending(timerTable) :
         timerTable'[k].status = "cancelled" /\ timerTable'[k].doneAt = now
    /\ speechStartTimer' = NoTimer
    /\ speechEndTimer' = NoTimer
    /\ silenceTimer' = NoTimer
    /\ ~isSpeaking'
    /\ speechStartTime' = NULL
    /\ speechEndTime' = NULL
    /\ lastSpeechTime' = NULL
    /\ audioBuffer' = <<>>
    /\ frameBuffer' = <<>>
    /\ events' = events
    /\ now' = now

\* C13: reset() leaves no timer pending (every pending onset, offset and
\* silence timer is cancelled), isSpeaking false, the three timestamps null
\* and both buffers empty, and emits nothing; as long as no frame is
\* processed afterwards no event is emitted, no timer is pending and no
\* segment is open.
C13_ResetClears == [](C13_Inv) /\ [][C13_Step]_vars

\* C13 witness: reset() was called during the end delay of an open segment,
\* with the silence countdown running too; both timers were cancelled and
\* nothing has happened since.
C13_Witness ==
  /\ resets > 0
  /\ closed[Len(closed)].reason = "reset"
  /\ closed[Len(closed)].audio # <<>>
  /\ closed[Len(closed)].nframes = Len(framesLog)
  /\ \E k \in Timers("offset") :
       timerTable[k].status = "cancelled"
       /\ timerTable[k].doneAt = closed[Len(closed)].at
       /\ timerTable[k].doneAt < timerTable[k].due
  /\ \E k \in Timers("silence") :
       timerTable[k].status = "cancelled"
       /\ timerTable[k].doneAt = closed[Len(closed)].at
       /\ timerTable[k].doneAt < timerTable[k].due

\* the noise floor and threshold of a newly constructed detector after it
\* has processed the frames number a to b
RECURSIVE FreshFloor(_, _)
FreshFloor(a, b) ==
  IF a > b
  THEN [noiseFloor |-> 1000, adaptiveThreshold |-> VadThreshold]
  ELSE LET before == FreshFloor(a, b - 1)
           energy == framesLog[b].energy
       IN updateNoiseFloor(before, energy, detectSpeech(before, energy))

\* C14: as long as updateConfig is not used, every frame processed after a
\* reset() is classified as a newly constructed detector classifies it after
\* the same frames since that reset().
C14_ResetEquivalence ==
  configLog = <<>> =>
    \A c \in DOMAIN closed :
      closed[c].reason = "reset" =>
        \A n \in (closed[c].nframes + 1)..Len(framesLog) :
          ResetsBetween(closed[c].nframes, n) = {c} =>
            framesLog[n].isSpeech =
              detectSpeech(FreshFloor(closed[c].nframes + 1, n - 1),
                           framesLog[n].energy)

\* x is 0.01 * energy + 0.99 * floor, rounded down to the unit of the model
IsAverage(x, energy, floor) ==
  IF energy = NaN \/ floor = NaN THEN x = NaN
  ELSE x # NaN /\ 100 * x <= energy + 99 * floor
               /\ energy + 99 * floor < 100 * x + 100

C15_Inv ==
  /\ \A n \in DOMAIN framesLog :
       LET f == framesLog[n]
       IN /\ f.isSpeech =>
               /\ f.floorAfter = f.floorBefore
               /\ f.thresholdAfter = f.thresholdBefore
          /\ ~f.isSpeech => IsAverage(f.floorAfter, f.energy, f.floorBefore)
          /\ f.floorBefore = IF n = 1 THEN 1000 ELSE framesLog[n - 1].floorAfter
  /\ noiseFloor = IF framesLog = <<>> THEN 1000
                  ELSE framesLog[Len(framesLog)].floorAfter

C15_Step ==
  noiseFloor' # noiseFloor =>
    /\ Len(framesLog') = Len(framesLog) + 1
    /\ ~framesLog'[Len(framesLog')].isSpeech

\* C15: a frame classified as speech leaves noiseFloor and adaptiveThreshold
\* as they were; a frame classified as non-speech sets noiseFloor to
\* 0.01 * energy + 0.99 * noiseFloor; noiseFloor changes in no other step, so
\* each frame meets the value the previous frame left (0.001 for the first)
\* whatever timer callbacks, reset() and updateConfig() came in between.
C15_NoiseFloorRule == [](C15_Inv) /\ [][C15_Step]_vars

\* C15 witness: a non-speech frame moved the floor, a speech frame then left
\* it alone, and updateConfig() and a timer callback have run since.
C15_Witness ==
  /\ \E n \in DOMAIN framesLog :
       /\ ~framesLog[n].isSpeech
       /\ framesLog[n].energy > 0
       /\ framesLog[n].floorAfter > framesLog[n].floorBefore
       /\ \E m \in (n + 1)..Len(framesLog) :
            /\ framesLog[m].isSpeech
            /\ \E c \in DOMAIN configLog : configLog[c].nframes >= m
            /\ \E k \in DOMAIN timerTable :
                 timerTable[k].status = "fired" /\ timerTable[k].doneFrame >= m
  /\ noiseFloor # 1000

\* no sample that is not a number has been handed to processFrame
AllNumbers ==
  \A n \in DOMAIN framesLog :
    \A i \in DOMAIN framesLog[n].samples : framesLog[n].samples[i].v # NaN

\* C16: as long as every sample is a number, noiseFloor is a number and is
\* not negative.
C16_FloorNonNegative == AllNumbers => noiseFloor # NaN /\ noiseFloor >= 0

\* the larger of the adaptive threshold and three times the noise floor that
\* frame n met
ThresholdMet(n) ==
  LET a == framesLog[n].thresholdBefore
      b == framesLog[n].floorBefore
  IN IF a = NaN \/ b = NaN THEN NaN ELSE IF a >= 3 * b THEN a ELSE 3 * b

\* C17: a frame is classified as speech exactly when its energy is strictly
\* greater than the larger of adaptiveThreshold and 3 * noiseFloor as they
\* were when the frame arrived (never when one of them is not a number); an
\* energy equal to that threshold is non-speech.
C17_SpeechDecision ==
  \A n \in DOMAIN framesLog :
    /\ framesLog[n].isSpeech =
         (/\ framesLog[n].energy # NaN
          /\ ThresholdMet(n) # NaN
          /\ framesLog[n].energy > ThresholdMet(n))
    /\ framesLog[n].energy = ThresholdMet(n) => ~framesLog[n].isSpeech

\* C17 witness: a frame whose energy equals the threshold was classified as
\* non-speech, and a frame was classified as speech against 3 * noiseFloor
\* after updateConfig() had put adaptiveThreshold below it.
C17_Witness ==
  /\ \E n \in DOMAIN framesLog :
       /\ framesLog[n].energy # NaN
       /\ framesLog[n].energy = ThresholdMet(n)
       /\ ~framesLog[n].isSpeech
  /\ \E n \in DOMAIN framesLog :
       /\ framesLog[n].isSpeech
       /\ framesLog[n].thresholdBefore < 3 * framesLog[n].floorBefore

\* C18: after updateConfig() energyThreshold and silenceTimeout are the
\* values passed, or the previous ones for a field left out.
C18_ConfigApplied ==
  \A c \in DOMAIN configLog :
    LET u == configLog[c]
    IN /\ u.thresholdAfter =
            IF u.vadThreshold = NULL THEN u.thresholdBefore ELSE u.vadThreshold
       /\ u.timeoutAfter =
            IF u.silenceTimeout = NULL THEN u.timeoutBefore ELSE u.silenceTimeout

\* event i was emitted inside a processFrame call
InFrame(i) ==
  \E n \in DOMAIN framesLog :
    framesLog[n].evBefore < i /\ i <= framesLog[n].evAfter

\* the last speechStart event before event i
StartBefore(i) ==
  LET starts == {j \in Events("speechStart") : j < i}
  IN CHOOSE j \in starts : \A j2 \in starts : j2 <= j

C19_Inv ==
  \A i \in Events("speechEnd") :
    LET ev == events[i]
    IN /\ \E j \in Events("speechStart") : j < i
       /\ ev.timestamp = events[StartBefore(i)].at
       /\ ev.duration = ev.at - ev.timestamp
       /\ ev.reason \in {"silence", "max_duration"}
       /\ (ev.reason = "max_duration") = InFrame(i)
       /\ (ev.reason = "silence") =
            (/\ ~InFrame(i)
             /\ \E k \in Timers("offset") :
                  /\ timerTable[k].status = "fired"
                  /\ timerTable[k].doneAt = ev.at
                  /\ timerTable[k].doneFrame = ev.nframes)
       /\ ev.reason = "max_duration" =>
            /\ i < Len(events)
            /\ events[i + 1].type = "speechStart"
            /\ events[i + 1].reason = "continued"

C19_Step ==
  \A i \in (Len(events) + 1)..Len(events') :
    events'[i].type = "speechEnd" =>
      /\ isSpeaking
      /\ events'[i].timestamp = speechStartTime
      /\ events'[i].duration = now - speechStartTime
      /\ events'[i].at = now
      /\ events'[i].audio =
           IF Len(framesLog') > Len(framesLog)
           THEN audioBuffer \o framesLog'[Len(framesLog')].samples
           ELSE audioBuffer
      /\ events'[i].reason =
           IF Len(framesLog') > Len(framesLog) THEN "max_duration" ELSE "silence"

\* C19: a speechEnd event carries the whole buffer of the segment it closes
\* (the frame that forces a cut included), the start timestamp of that
\* segment, which is the time of the last speechStart before it (onset or
\* continuation), the time from that timestamp to the finalization as its
\* duration, and the reason max_duration exactly when it is emitted by a
\* frame's duration check and silence exactly when by the offset timer.
C19_Payload == [](C19_Inv) /\ [][C19_Step]_vars

\* C19 witness: a segment closed by a cut, and its continuation closed by the
\* offset timer with the time of the cut as its timestamp.
C19_Witness ==
  \E i, j \in Events("speechEnd") :
    /\ i < j
    /\ events[i].reason = "max_duration"
    /\ events[j].reason = "silence"
    /\ events[j].timestamp = events[i].at
    /\ events[j].audio # <<>>
    /\ events[i].audio # events[j].audio

\* C20: a sample that is not a number, passed to processAudio, is handed to
\* no processFrame call, so it reaches neither the energy computation nor
\* the segment buffer.
C20_MalformedRejected ==
  \A i \in DOMAIN fedLog :
    fedLog[i].v = NaN =>
      /\ \A n \in DOMAIN framesLog :
           \A j \in DOMAIN framesLog[n].samples :
             framesLog[n].samples[j].id # fedLog[i].id
      /\ \A j \in DOMAIN audioBuffer : audioBuffer[j].id # fedLog[i].id

\* the positions of a frame at which the sign test changes its answer
CrossingSet(f) == {i \in 2..Len(f) : (f[i] >= 0) # (f[i - 1] >= 0)}
Alternating(f) ==
  \E a \in {v \in AnalysisAmps : v > 0} :
    /\ \A i \in DOMAIN f : f[i] \in {a, -a}
    /\ \A i \in 2..Len(f) : f[i] = -f[i - 1]
ConstantFrame(f) == \A i \in DOMAIN f : f[i] = f[1]
AllZero(f) == \A i \in DOMAIN f : f[i] = 0

\* C21: for a frame of n >= 1 samples calculateZeroCrossingRate returns the
\* number of positions i in 1..n-1 at which (frame[i] >= 0) differs from
\* (frame[i-1] >= 0), divided by n, a value in [0, 1]; it is (n-1)/n for a
\* frame alternating +A, -A and 0 for a constant frame.
C21_ZeroCrossingRate ==
  \A n \in DOMAIN features :
    features[n].op = "calculateZeroCrossingRate" =>
      LET zcr == features[n].zcr
      IN /\ zcr.den = Len(analysisFrame)
         /\ zcr.num = Cardinality(CrossingSet(analysisFrame))
         /\ 0 <= zcr.num /\ zcr.num <= zcr.den
         /\ Alternating(analysisFrame) => zcr.num = Len(analysisFrame) - 1
         /\ ConstantFrame(analysisFrame) => zcr.num = 0

\* the rate of the longest alternating frame has been computed
C21_Witness ==
  /\ Len(analysisFrame) = MaxAnalysisLen
  /\ Alternating(analysisFrame)
  /\ \E n \in DOMAIN features :
       /\ features[n].op = "calculateZeroCrossingRate"
       /\ features[n].zcr.num = MaxAnalysisLen - 1

\* the label the rule gives to a frame whose energy is e (1e-6)
Label(f, e) ==
  IF e # NaN /\ e < 10000 THEN "silence"
  ELSE IF Cardinality(CrossingSet(f)) * 10 > Len(f) THEN "unvoiced"
  ELSE "voiced"

\* C22: classifyFrame(frame, energy) returns silence if energy < 0.01,
\* otherwise unvoiced if the zero-crossing rate is > 0.1, otherwise voiced; an
\* all-zero frame has energy 0 and label silence; extractVADFeatures reports
\* isSpeechLikely = (energy > 0.01 and the label is voiced or unvoiced).
C22_Classification ==
  \A n \in DOMAIN features :
    LET r == features[n]
    IN /\ r.op = "classifyFrame" =>
            r.frameClass = Label(analysisFrame, r.energy)
       /\ r.op = "extractVADFeatures" =>
            /\ r.frameClass = Label(analysisFrame, r.energy)
            /\ AllZero(analysisFrame) =>
                 r.energy = 0 /\ r.frameClass = "silence"
            /\ r.isSpeechLikely =
                 (/\ r.energy # NaN
                  /\ r.energy > 10000
                  /\ r.frameClass \in {"voiced", "unvoiced"})

\* a frame of energy exactly 0.01 has been given a label other than silence
\* and is not reported as likely speech
C22_Witness ==
  \E n \in DOMAIN features :
    /\ features[n].op = "extractVADFeatures"
    /\ features[n].energy = 10000
    /\ features[n].frameClass = "voiced"
    /\ ~features[n].isSpeechLikely

\* ---- the OpenAI service's logs
Active == {l \in DOMAIN loops : loops[l].pc # "done"}
InFlightCalls == {n \in DOMAIN apiLog : apiLog[n].outcome = NoValue}
SettledAt(r) == {n \in DOMAIN settled : settled[n].request = r}
\* requests taken off the queue and not settled yet
InProcess ==
  {r \in 1..submitted :
     /\ \A i \in DOMAIN requestQueue : requestQueue[i] # r
     /\ SettledAt(r) = {}}
CallsOf(r) == {n \in DOMAIN apiLog : apiLog[n].request = r}
LastCall(r) == CHOOSE n \in CallsOf(r) : \A m \in CallsOf(r) : m <= n
RetryableByList(err) ==
  /\ err.name = "Error"
  /\ \/ err.code \in {"ECONNRESET", "ETIMEDOUT", "ENOTFOUND"}
     \/ err.status \in {429, 500, 502, 503, 504}
     \/ err.response \in {429, 500, 502, 503, 504}

\* C23: requests submitted through transcribe() are processed one at a time in
\* the order of submission: at most one processQueue loop is active, and
\* exactly then processing is true; at most one request is off the queue and
\* unsettled and at most one API call is in flight; requests wait, are called
\* and are settled in the order of submission, also when transcribe() is
\* called while a request awaits the API or a rate-limit or back-off sleep.
C23_Serialized ==
  /\ Cardinality(Active) <= 1
  /\ processing = (Active # {})
  /\ Cardinality(InProcess) <= 1
  /\ Cardinality(InFlightCalls) <= 1
  /\ \A r \in InProcess :
       /\ \A e \in 1..(r - 1) : SettledAt(e) # {}
       /\ \E l \in Active : loops[l].request = r
  /\ \A i, j \in DOMAIN requestQueue : i < j => requestQueue[i] < requestQueue[j]
  /\ \A m, n \in DOMAIN apiLog : m < n => apiLog[m].request <= apiLog[n].request
  /\ \A m, n \in DOMAIN settled : m < n => settled[m].request < settled[n].request

\* a second request was queued while the first one was in a back-off sleep,
\* and both have been answered since
C23_Witness ==
  /\ Len(settled) = MaxRequests
  /\ \E n \in CallsOf(1) : apiLog[n].attempt = 1
  /\ \E l \in DOMAIN loops : l > 1

\* what a request that ended with the calls logged for it is settled with
Expected(r) ==
  LET last == apiLog[LastCall(r)].outcome
  IN IF last.name = "response"
     THEN (IF last.code = "null"
           THEN [how |-> "rejected", value |-> TypeError]
           ELSE [how |-> "resolved", value |-> parseResponse(last.code)])
     ELSE [how |-> "rejected", value |-> last]

C24_Inv ==
  enabled =>
    /\ \A r \in 1..submitted : Cardinality(SettledAt(r)) <= 1
    /\ \A n \in DOMAIN settled :
         /\ CallsOf(settled[n].request) # {}
         /\ settled[n].how = Expected(settled[n].request).how
         /\ settled[n].value = Expected(settled[n].request).value
    /\ (\A r \in 1..submitted : SettledAt(r) # {}) =>
         Len(requestQueue) = 0 /\ ~processing

\* C24: when every API call and sleep ends, every transcribe() call on an
\* enabled service is eventually settled, and never twice: resolved with the
\* parsed result or rejected with the error; requests queued behind a rejected
\* one are settled like any other; once all requests are settled the queue is
\* empty and processing is false.
C24_Drains ==
  /\ [](C24_Inv)
  /\ \A r \in 1..MaxRequests :
       (enabled /\ submitted >= r) ~> (SettledAt(r) # {})

\* the first request was rejected, the next one resolved, nothing is left
C24_Witness ==
  /\ enabled
  /\ submitted = MaxRequests
  /\ \A r \in 1..submitted : SettledAt(r) # {}
  /\ settled[1].how = "rejected"
  /\ settled[2].how = "resolved"
  /\ Len(requestQueue) = 0 /\ ~processing

\* C25: for one request the API is called at most maxRetries (3) times, the
\* attempts being numbered 0, 1, 2; a further call is made only after a call
\* that failed with a retryable error (code ECONNRESET, ETIMEDOUT, ENOTFOUND or
\* status 429, 500, 502, 503, 504); a call that fails with any other error is
\* the request's last (its only one when it is the first) and the request is
\* rejected with that error; after three retryable failures the request is
\* rejected with the last error; a call that succeeds is the last one.
C25_RetryPolicy ==
  \A r \in 1..submitted :
    /\ Cardinality(CallsOf(r)) <= 3
    /\ \A n \in CallsOf(r) :
         LET call == apiLog[n]
             later == {m \in CallsOf(r) : m > n}
         IN /\ call.attempt = Cardinality({m \in CallsOf(r) : m < n})
            /\ later # {} => RetryableByList(call.outcome)
            /\ (call.outcome # NoValue /\ ~RetryableByList(call.outcome)) =>
                 /\ later = {}
                 /\ call.attempt = 0 => Cardinality(CallsOf(r)) = 1
            /\ (RetryableByList(call.outcome) /\ call.attempt < 2) =>
                 SettledAt(r) = {}
                 \/ later # {}
    /\ \A n \in SettledAt(r) :
         enabled =>
           LET last == apiLog[LastCall(r)].outcome
           IN /\ last # NoValue
              /\ last.name = "Error" =>
                   settled[n].how = "rejected" /\ settled[n].value = last
              /\ settled[n].how = "resolved" => last.name = "response"
              /\ RetryableByList(last) => Cardinality(CallsOf(r)) = 3

\* a request was rejected after three retryable failures with the error of
\* the third call, which differs from the error of the first
C25_Witness ==
  \E n \in DOMAIN settled :
    LET r == settled[n].request
    IN /\ Cardinality(CallsOf(r)) = 3
       /\ settled[n].how = "rejected"
       /\ settled[n].value = apiLog[LastCall(r)].outcome
       /\ \E m \in CallsOf(r) : apiLog[m].outcome # settled[n].value

\* ---- the manager's logs
ServiceCalls(call) == {n \in DOMAIN serviceLog : serviceLog[n].call = call}
FirstAttempt(call) ==
  CHOOSE n \in ServiceCalls(call) : \A m \in ServiceCalls(call) : n <= m
FallbackEvents(call) ==
  {k \in DOMAIN managerEvents :
     /\ managerEvents[k].type = "transcription"
     /\ managerEvents[k].call = call
     /\ managerEvents[k].fallback}

C27_Inv ==
  \A h \in DOMAIN healthChecks :
    LET check == healthChecks[h]
    IN check.pc = "done" =>
         IF provider = "auto"
         THEN /\ (check.openai = "unhealthy" /\ check.local = "healthy") =>
                   check.after = "local"
              /\ check.openai = "healthy" => check.after = "openai"
         ELSE check.after = check.before

C27_Step ==
  primaryService' # primaryService =>
    /\ provider = "auto"
    /\ \E h \in DOMAIN healthChecks :
         healthChecks[h].pc = "local" /\ healthChecks'[h].pc = "done"

\* C27: in provider mode auto, when a checkHealth ends the primary service is
\* the local service if it found OpenAI unhealthy and local healthy, and the
\* OpenAI service if it found OpenAI healthy; in any other mode no checkHealth
\* changes primaryService, whatever it found; nothing but the end of a
\* checkHealth changes primaryService.
C27_Failover == [](C27_Inv) /\ [][C27_Step]_vars

\* in auto mode one health check has moved the primary service to local and a
\* later one has moved it back
C27_Witness ==
  /\ provider = "auto"
  /\ \E g, h \in DOMAIN healthChecks :
       /\ healthChecks[g].pc = "done" /\ healthChecks[h].pc = "done"
       /\ healthChecks[g].before = "openai" /\ healthChecks[g].after = "local"
       /\ healthChecks[h].before = "local" /\ healthChecks[h].after = "openai"

\* timer k was pending when frame n was handed to processFrame
WasPending(k, n) ==
  /\ timerTable[k].armFrame < n
  /\ timerTable[k].status = "pending" \/ timerTable[k].doneFrame >= n

\* C28: at most one onset timer and one offset timer are pending at any time;
\* a speech frame processed while an onset timer is pending, and a non-speech
\* frame processed while an offset timer is pending, leaves that same timer
\* pending and starts no other; a timer's deadline is 300 ms (onset) or
\* 1000 ms (offset) after the frame that started it, no timer of its kind was
\* pending when that frame came, and a timer that runs does so at its deadline.
C28_Idempotent ==
  /\ Cardinality(PendingOf(timerTable, "onset")) <= 1
  /\ Cardinality(PendingOf(timerTable, "offset")) <= 1
  /\ \A n \in DOMAIN framesLog :
       /\ \A k \in Timers("onset") :
            (WasPending(k, n) /\ framesLog[n].isSpeech)
              => framesLog[n].onsetAfter = {k}
       /\ \A k \in Timers("offset") :
            (WasPending(k, n) /\ ~framesLog[n].isSpeech)
              => framesLog[n].offsetAfter = {k}
  /\ \A k \in Timers("onset") \cup Timers("offset") :
       LET t == timerTable[k]
           delay == IF t.kind = "onset" THEN 300 ELSE 1000
       IN /\ t.armFrame \in DOMAIN framesLog
          /\ t.due = framesLog[t.armFrame].at + delay
          /\ t.status = "fired" => t.doneAt = t.due
          /\ \A j \in Timers(t.kind) : ~WasPending(j, t.armFrame)

\* two speech frames at different instants met the same pending onset timer,
\* it ran 300 ms after the first; later the same happened to an offset timer
\* with non-speech frames
C28_Witness ==
  /\ \E k \in Timers("onset") : \E n \in DOMAIN framesLog :
       /\ timerTable[k].status = "fired"
       /\ WasPending(k, n)
       /\ framesLog[n].isSpeech
       /\ framesLog[n].at > timerTable[k].armedAt
  /\ \E k \in Timers("offset") : \E n \in DOMAIN framesLog :
       /\ timerTable[k].status = "fired"
       /\ WasPending(k, n)
       /\ ~framesLog[n].isSpeech
       /\ framesLog[n].at > timerTable[k].armedAt

\* timers cancelled when their deadline had been reached
CancelledLate ==
  {k \in DOMAIN timerTable :
     timerTable[k].status = "cancelled"
     /\ timerTable[k].doneAt >= timerTable[k].due}
FiredTimers(kind) == {k \in Timers(kind) : timerTable[k].status = "fired"}

C29_Inv ==
  \* a speech frame cancels the offset and the silence timer: one that runs
  \* has met no speech frame since it was started
  /\ \A k \in FiredTimers("offset") \cup FiredTimers("silence") :
       \A j \in (timerTable[k].armFrame + 1)..timerTable[k].doneFrame :
         ~framesLog[j].isSpeech
  \* reset cancels every timer: one started before a reset is not pending,
  \* and if it ran it ran before the reset
  /\ \A c \in DOMAIN closed : \A k \in DOMAIN timerTable :
       (closed[c].reason = "reset" /\ timerTable[k].armFrame <= closed[c].nframes)
         => /\ timerTable[k].status # "pending"
            /\ timerTable[k].status = "fired" =>
                 /\ timerTable[k].doneFrame <= closed[c].nframes
                 /\ timerTable[k].doneAt <= closed[c].at
  \* every effect of a callback belongs to a timer that ran
  /\ Cardinality(OnsetEvents) = Cardinality(FiredTimers("onset"))
  /\ Cardinality(Events("silenceTimeout")) = Cardinality(FiredTimers("silence"))
  /\ Cardinality({c \in DOMAIN closed : closed[c].reason = "silence"})
       = Cardinality(FiredTimers("offset"))

C29_Step ==
  /\ \A k \in DOMAIN timerTable :
       timerTable[k].status = "cancelled" => timerTable'[k] = timerTable[k]
  /\ (\A k \in DOMAIN timerTable : timerTable'[k].status = timerTable[k].status)
       => /\ Len(events') = Len(events) \/ Len(framesLog') > Len(framesLog)
          /\ isSpeaking' = isSpeaking \/ Len(framesLog') > Len(framesLog)
                                      \/ resets' > resets

\* C29: a timer that was cancelled, by a speech frame (offset and silence
\* timer) or by reset (every timer), never runs: its record stays as it is,
\* every speechStart with reason onset, every silenceTimeout and every closing
\* with reason silence belongs to a timer that was not cancelled, and a step
\* in which no timer runs emits events or changes isSpeaking only by a call
\* from outside; this includes timers whose deadline had been reached when
\* they were cancelled.
C29_Inert == [](C29_Inv) /\ [][C29_Step]_vars

\* an offset timer was cancelled by a speech frame that came at its deadline,
\* before its callback, and the segment is still open 500 ms later
C29_Witness ==
  /\ isSpeaking
  /\ \E k \in CancelledLate :
       /\ timerTable[k].kind = "offset"
       /\ framesLog[timerTable[k].doneFrame].isSpeech
       /\ now > timerTable[k].due

C30_Inv ==
  /\ \A n \in DOMAIN framesLog : Len(framesLog[n].samples) = frameSize
  /\ Len(frameBuffer) < frameSize

C30_Step ==
  LET added == Len(fedLog') - Len(fedLog)
  IN /\ Len(framesLog') - Len(framesLog)
          = (Len(frameBuffer) + added) \div frameSize
     /\ Len(frameBuffer') = (Len(frameBuffer) + added) % frameSize

\* C30: every frame processAudio hands to processFrame has exactly frameSize
\* samples; after every call frameBuffer holds fewer than frameSize samples;
\* a call that adds n samples to a remainder of r samples makes exactly
\* floor((r + n) / frameSize) processFrame calls and leaves the other
\* (r + n) mod frameSize samples in frameBuffer.
C30_WholeFrames == [](C30_Inv) /\ [][C30_Step]_vars

\* all samples of the run were fed, the last call left an incomplete frame
\* waiting and every complete frame before it was processed
C30_Witness ==
  /\ Len(fedLog) = MaxAsmSamples
  /\ Len(frameBuffer) = frameSize - 1
  /\ Len(framesLog) = (MaxAsmSamples - (frameSize - 1)) \div frameSize
  /\ \A n \in DOMAIN framesLog : Len(framesLog[n].samples) = frameSize


\* ---- pre-roll, buffer growth, threshold, phases
\* C31: when an onset timer runs, audioBuffer becomes its last
\* min(length, floor(sampleRate * 0.3)) samples in their order, everything
\* before them is dropped, isSpeaking is true, the start timestamp is the
\* time of the callback, and exactly one event is emitted, a speechStart
\* whose listener already reads that start timestamp.
C31_Step ==
  \A k \in DOMAIN timerTable :
    (/\ timerTable[k].kind = "onset"
     /\ timerTable[k].status = "pending"
     /\ timerTable'[k].status = "fired")
    => LET n == Len(audioBuffer)
           pre == (SampleRate * 3) \div 10
           keep == IF n < pre THEN n ELSE pre
       IN /\ Len(audioBuffer') = keep
          /\ \A i \in 1..keep : audioBuffer'[i] = audioBuffer[n - keep + i]
          /\ isSpeaking'
          /\ speechStartTime' = now
          /\ Len(events') = Len(events) + 1
          /\ SubSeq(events', 1, Len(events)) = events
          /\ events'[Len(events')].type = "speechStart"
          /\ events'[Len(events')].reason = "onset"
          /\ events'[Len(events')].timestamp = now

C31_PreRoll == [][C31_Step]_vars

\* an onset has just been confirmed with more than the pre-roll buffered:
\* the buffer holds the newest floor(sampleRate * 0.3) samples only
C31_Witness ==
  /\ events # <<>>
  /\ events[Len(events)].reason = "onset"
  /\ events[Len(events)].at = now
  /\ Len(audioBuffer) = preSpeechSamples
  /\ audioBuffer[1].id > 1
  /\ audioBuffer[Len(audioBuffer)].id = Len(fedLog)


\* the frame numbered n ended a segment at the maximum duration
CutIn(n) ==
  \E i \in 1..Len(closed) :
    closed[i].reason = "max_duration" /\ closed[i].nframes = n

\* frames and events at the last finalization or reset (none: construction)
LastClosing ==
  IF closed = <<>> THEN [nframes |-> 0, nevents |-> 0]
  ELSE [nframes |-> closed[Len(closed)].nframes,
        nevents |-> closed[Len(closed)].nevents]

\* a speechStart was emitted since the last finalization or reset
ConfirmedSince ==
  \E i \in (LastClosing.nevents + 1)..Len(events) :
    events[i].type = "speechStart"

\* x is the beginning of y
IsPrefix(x, y) == Len(x) <= Len(y) /\ SubSeq(y, 1, Len(x)) = x

\* C32: every processFrame call appends the samples of its frame to
\* audioBuffer, whatever the phase (a frame that forces a cut is appended,
\* emitted with the segment, and the buffer is then empty); audioBuffer
\* loses samples only in a step in which an onset timer runs or a segment
\* is finalized or reset is called; and while no speechStart was emitted
\* since construction, the last finalization or the last reset, the length
\* of audioBuffer is frameSize times the number of frames processed since.
C32_Inv ==
  /\ \A n \in 1..Len(framesLog) :
       LET f == framesLog[n]
       IN IF CutIn(n)
          THEN /\ f.bufAfter = <<>>
               /\ \E i \in 1..Len(closed) :
                    /\ closed[i].nframes = n
                    /\ closed[i].reason = "max_duration"
                    /\ closed[i].audio = f.bufBefore \o f.samples
          ELSE f.bufAfter = f.bufBefore \o f.samples
  /\ ~ConfirmedSince =>
       Len(audioBuffer) =
         ((SampleRate * 3) \div 100) * (Len(framesLog) - LastClosing.nframes)

C32_Step ==
  ~IsPrefix(audioBuffer, audioBuffer') =>
    \/ \E k \in DOMAIN timerTable :
         /\ timerTable[k].kind = "onset"
         /\ timerTable[k].status = "pending"
         /\ timerTable'[k].status = "fired"
    \/ Len(closed') > Len(closed)

C32_Growth == [](C32_Inv) /\ [][C32_Step]_vars

\* a segment was closed by the offset timer and silence went on: the buffer
\* holds every frame processed since, and no timer or segment is open
C32_Witness ==
  /\ closed # <<>>
  /\ closed[Len(closed)].reason = "silence"
  /\ ~ConfirmedSince
  /\ ~isSpeaking
  /\ Len(framesLog) - LastClosing.nframes >= 3
  /\ Len(audioBuffer) = frameSize * (Len(framesLog) - LastClosing.nframes)


\* a non-speech frame was processed after the last updateConfig call (after
\* construction when there was none)
NonSpeechSinceConfig ==
  \E n \in 1..Len(framesLog) :
    /\ ~framesLog[n].isSpeech
    /\ configLog # <<>> => n > configLog[Len(configLog)].nframes

\* C33: when a non-speech frame has been processed, adaptiveThreshold is 5
\* times noiseFloor (the product of the floor as stored, NaN when the floor
\* is NaN) on return and in every later state up to the next updateConfig
\* call, whatever else is called; from construction or an updateConfig call
\* up to the next non-speech frame adaptiveThreshold is the configured
\* threshold.
C33_TracksFloor ==
  /\ \A n \in 1..Len(framesLog) :
       ~framesLog[n].isSpeech =>
         framesLog[n].thresholdAfter = Times(5, framesLog[n].floorAfter)
  /\ NonSpeechSinceConfig => adaptiveThreshold = Times(5, noiseFloor)
  /\ ~NonSpeechSinceConfig => adaptiveThreshold = energyThreshold

\* non-speech frames before and after an updateConfig call: the threshold
\* follows the floor again and differs from the configured one
C33_Witness ==
  /\ configLog # <<>>
  /\ configLog[Len(configLog)].nframes > 0
  /\ NonSpeechSinceConfig
  /\ noiseFloor # NaN
  /\ adaptiveThreshold = 5 * noiseFloor
  /\ adaptiveThreshold # energyThreshold


\* the four phases of the segmentation, read off the timers and the flag
ConfirmingStart == PendingOf(timerTable, "onset") # {}
ConfirmingEnd == PendingOf(timerTable, "offset") # {}
Idle == ~isSpeaking /\ ~ConfirmingStart /\ ~ConfirmingEnd
ActivePhase == isSpeaking /\ ~ConfirmingStart /\ ~ConfirmingEnd
PhasesHolding ==
  {p \in {"IDLE", "CONFIRMING_START", "ACTIVE", "CONFIRMING_END"} :
     \/ p = "IDLE" /\ Idle
     \/ p = "CONFIRMING_START" /\ ConfirmingStart
     \/ p = "ACTIVE" /\ ActivePhase
     \/ p = "CONFIRMING_END" /\ ConfirmingEnd}

\* C34: in every reachable state an onset timer and an offset timer are not
\* pending together, a pending offset timer means isSpeaking is true and a
\* pending onset timer means it is false, so exactly one of the phases IDLE,
\* CONFIRMING_START, ACTIVE and CONFIRMING_END holds.
C34_Phases ==
  /\ ~(ConfirmingStart /\ ConfirmingEnd)
  /\ ConfirmingEnd => isSpeaking
  /\ ConfirmingStart => ~isSpeaking
  /\ Cardinality(PhasesHolding) = 1

\* the detector has been in CONFIRMING_START and ACTIVE and is in
\* CONFIRMING_END: an offset timer is pending in a confirmed segment
C34_Witness ==
  /\ ConfirmingEnd
  /\ isSpeaking
  /\ \E k \in Timers("onset") : timerTable[k].status = "fired"


\* ---- stale handles, event order, closing
\* C35: the handle of a timer that has run stays in its field, but never
\* where it is consulted: in IDLE speechStartTimer is null, and in a segment
\* without a pending offset timer speechEndTimer is null.  So every speech
\* frame processed while isSpeaking is false leaves an onset timer pending,
\* and every non-speech frame processed while isSpeaking is true leaves an
\* offset timer pending, for the first utterance and for every later one.
C35_NoStaleBlock ==
  /\ Idle => speechStartTimer = NoTimer
  /\ isSpeaking /\ ~ConfirmingEnd => speechEndTimer = NoTimer
  /\ \A n \in 1..Len(framesLog) :
       LET f == framesLog[n]
       IN /\ f.isSpeech /\ ~f.speakingBefore => f.onsetAfter # {}
          /\ ~f.isSpeech /\ f.speakingBefore => f.offsetAfter # {}

\* two utterances, each confirmed by its own onset timer and closed by its
\* own offset timer
C35_Witness ==
  /\ Cardinality(FiredTimers("onset")) = 2
  /\ Cardinality(FiredTimers("offset")) = 2
  /\ Len(closed) = 2
  /\ closed[1].reason = "silence" /\ closed[1].emitted
  /\ closed[2].reason = "silence" /\ closed[2].emitted


\* the speechStart and speechEnd events among the first n events
StartsUpTo(n) == {i \in 1..n : events[i].type = "speechStart"}
EndsUpTo(n) == {i \in 1..n : events[i].type = "speechEnd"}

\* the last speechStart before event i (0: none)
LastStart(i) ==
  IF StartsUpTo(i - 1) = {} THEN 0
  ELSE CHOOSE j \in StartsUpTo(i - 1) : \A k \in StartsUpTo(i - 1) : k <= j

\* C36: in every prefix of the event sequence there are at most as many
\* speechEnd as speechStart events; every speechEnd has a speechStart before
\* it with no other speechEnd and no reset in between, and carries the start
\* timestamp recorded at that speechStart; and a speechEnd is emitted only
\* in a step that begins with isSpeaking true.
C36_Inv ==
  /\ \A n \in 0..Len(events) :
       Cardinality(EndsUpTo(n)) <= Cardinality(StartsUpTo(n))
  /\ \A i \in EndsUpTo(Len(events)) :
       LET j == LastStart(i)
       IN /\ j # 0
          /\ \A k \in (j + 1)..(i - 1) : events[k].type # "speechEnd"
          /\ events[i].timestamp = events[j].timestamp
          /\ \A c \in DOMAIN closed :
               closed[c].reason = "reset" =>
                 ~(j <= closed[c].nevents /\ closed[c].nevents < i)

C36_Step ==
  (\E i \in (Len(events) + 1)..Len(events') : events'[i].type = "speechEnd")
    => isSpeaking

C36_Order == [](C36_Inv) /\ [][C36_Step]_vars

\* a segment closed by a cut, its continuation closed by the offset timer:
\* speechStart, speechEnd, speechStart, speechEnd
C36_Witness ==
  /\ Cardinality(EndsUpTo(Len(events))) = 2
  /\ Cardinality(StartsUpTo(Len(events))) = 2
  /\ \E i \in EndsUpTo(Len(events)) : events[i].reason = "max_duration"
  /\ \E i \in EndsUpTo(Len(events)) : events[i].reason = "silence"


\* C37 (1): a closing is the work of an offset timer that ran at that
\* instant or of a frame processed 3000 ms or more after the start
\* timestamp; a frame processed while a segment of that age is open closes
\* it, so with a frame at every instant the cut comes at the first instant
\* at or after the maximum duration; the clock stays below the horizon.
C37_Inv ==
  /\ now < StreamHorizon
  /\ \A c \in DOMAIN closed :
       \/ /\ closed[c].reason = "silence"
          /\ \E k \in FiredTimers("offset") :
               /\ timerTable[k].doneAt = closed[c].at
               /\ timerTable[k].doneFrame = closed[c].nframes
       \/ /\ closed[c].reason = "max_duration"
          /\ closed[c].nframes > 0
          /\ framesLog[closed[c].nframes].at = closed[c].at
          /\ closed[c].duration >= 3000
  /\ \A n \in 1..Len(framesLog) :
       LET f == framesLog[n]
       IN CutIn(n) <=> f.speakingBefore /\ f.at - f.startBefore >= 3000

\* C37 (2): with timers running when due, the clock moving on and a frame
\* processed at every instant while a segment is open, every open segment is
\* finalized: whenever isSpeaking is true, a state follows in which it is
\* false (a cut re-opens a segment at once, so the segment open in the
\* first state and every continuation of it have been closed by then).
C37_Live == isSpeaking ~> ~isSpeaking

\* C37: every opened segment is eventually closed, by the offset timer or by
\* a cut at the first frame at or after the maximum duration.
C37_Closed == [](C37_Inv) /\ C37_Live

\* a segment closed by a cut at the first frame 3000 ms after its start, and
\* its continuation closed by an offset timer
C37_Witness ==
  /\ Len(closed) >= 2
  /\ \E c \in DOMAIN closed :
       closed[c].reason = "max_duration" /\ closed[c].duration = 3000
  /\ closed[Len(closed)].reason = "silence"
  /\ ~isSpeaking


\* the offset timers that ran at the closing numbered c
ClosingTimers(c) ==
  {k \in FiredTimers("offset") :
     /\ timerTable[k].doneAt = closed[c].at
     /\ timerTable[k].doneFrame = closed[c].nframes}

\* C38: an offset timer runs 1000 ms after the frame that started it.  A
\* segment opened by an onset and closed by the offset timer has an offset
\* timer started at or after its start timestamp, so its duration is at
\* least 1000 ms and it is emitted.  A segment that the offset timer drops
\* without an event was re-opened by a maximum-duration cut, and the timer
\* was started before the instant of that cut.
C38_Discard ==
  /\ \A k \in FiredTimers("offset") :
       timerTable[k].doneAt = timerTable[k].armedAt + 1000
  /\ \A c \in DOMAIN closed :
       closed[c].reason = "silence" =>
         LET j == LastStart(closed[c].nevents + 1)
         IN /\ j # 0
            /\ ClosingTimers(c) # {}
            /\ events[j].reason = "onset" =>
                 /\ \A k \in ClosingTimers(c) :
                      timerTable[k].armedAt >= events[j].at
                 /\ closed[c].duration >= 1000
                 /\ closed[c].emitted
            /\ ~closed[c].emitted =>
                 /\ events[j].reason = "continued"
                 /\ closed[c].duration < 1000
                 /\ \A k \in ClosingTimers(c) :
                      timerTable[k].armedAt < events[j].at

\* a segment re-opened by a cut was dropped by the offset timer that had
\* been started before the cut
C38_Witness ==
  \E c \in DOMAIN closed :
    /\ closed[c].reason = "silence"
    /\ ~closed[c].emitted
    /\ closed[c].duration > 0
    /\ events[LastStart(closed[c].nevents + 1)].reason = "continued"


\* C39: in every state between operations isSpeaking is true exactly when
\* speechStartTime is not null, and the same holds on entry to and on return
\* from every processFrame call; the maximum-duration check, which tests
\* both, is therefore passed or failed on the age alone whenever a segment
\* is open: a frame cuts exactly when it meets an open segment 3000 ms old.
C39_Agree ==
  /\ isSpeaking <=> speechStartTime # NULL
  /\ \A n \in 1..Len(framesLog) :
       LET f == framesLog[n]
       IN /\ f.speakingBefore <=> f.startBefore # NULL
          /\ f.speakingAfter <=> f.startAfter # NULL
          /\ CutIn(n) <=> f.speakingBefore /\ f.at - f.startBefore >= 3000

\* a segment was opened, closed and the next one opened: the flag and the
\* timestamp went through true, false and true together
C39_Witness ==
  /\ isSpeaking
  /\ speechStartTime # NULL
  /\ \E c \in DOMAIN closed : closed[c].reason = "silence"
  /\ Cardinality(FiredTimers("onset")) = 2


====
